---- MODULE Spec2Model ----
(***************************************************************************)
(* A model of seaborn's semantic data-binding layer (seaborn/_oldcore.py): *)
(* categorical_order, variable_type, infer_orient, the hue/size/style      *)
(* semantic mappings and the VectorPlotter operations assign_variables,    *)
(* iter_data, comp_data, _attach and scale_categorical.                    *)
(*                                                                         *)
(* Data values are records [k, n, s]: k is the kind of Python object,      *)
(*   "num"  a non-null number, the float n.0,                              *)
(*   "str"  a string (s is its text),                                      *)
(*   "date" a datetime, the n-th instant,                                  *)
(*   "nan"  the float NaN (a Number instance that is null),                *)
(*   "none" the None object (null, not a Number instance).                 *)
(* A vector is a record [c, vals, cats]: c is the container ("float": a    *)
(* numeric-dtype Series, "datetime": a datetime64 Series, "object": an     *)
(* object-dtype Series, "category": a Series of categorical dtype with     *)
(* categories cats, "list": a Python list), vals the sequence of its       *)
(* values.                                                                 *)
(***************************************************************************)
EXTENDS Integers, Sequences, FiniteSets, TLC

VARIABLES
    pc,         \* position of the driver: which operation ran last
    args,       \* the arguments of the last call
    out,        \* what the last call returned, raised or yielded
    plotter     \* the VectorPlotter object (its attributes), or NoPlotter

vars == <<pc, args, out, plotter>>

----------------------------------------------------------------------------
(* Bounds of the model *)

\* longest vector / order list / table handed to an operation
MaxLen == 3

----------------------------------------------------------------------------
(* Values *)

Num(i) == [k |-> "num", n |-> i, s |-> ""]
Str(t) == [k |-> "str", n |-> 0, s |-> t]
NaN == [k |-> "nan", n |-> 0, s |-> ""]
None == [k |-> "none", n |-> 0, s |-> ""]
Date(i) == [k |-> "date", n |-> i, s |-> ""]

\* pd.notnull / pd.isna on one value
notnull(v) == v.k \notin {"nan", "none"}
isna(v) == ~notnull(v)

\* isinstance(v, numbers.Number): NaN is a float
IsNumber(v) == v.k \in {"num", "nan"}

\* Python's == on two values; NaN is unequal to everything, itself included
PyEq(a, b) == a.k # "nan" /\ b.k # "nan" /\ a = b

----------------------------------------------------------------------------
(* Sequence helpers *)

Range(s) == {s[i] : i \in 1..Len(s)}

\* reversed(list(s))
\* the sequence in its own order
SameOrder(s) == s

\* reversed(list(s))
Reverse(s) == [i \in 1..Len(s) |-> s[Len(s) + 1 - i]]

\* all sequences over S of length 0..n
SeqsUpTo(S, n) == UNION {[1..m -> S] : m \in 0..n}

NoDup(s) == \A i, j \in 1..Len(s) : i # j => s[i] # s[j]

\* pandas' unique: first-seen order; all NaN count as one value, None as one
RECURSIVE Unique(_)
Unique(s) ==
    IF s = <<>> THEN <<>>
    ELSE LET init == Unique(SubSeq(s, 1, Len(s) - 1))
             last == s[Len(s)]
         IN  IF last \in Range(init) THEN init ELSE Append(init, last)

\* the order np.sort and sort_values use on numbers: ascending, NaN last
NumLe(a, b) == \/ b.k = "nan"
               \/ a.k = "num" /\ b.k = "num" /\ a.n <= b.n

\* insert the pair p = <<key, item>> into the sequence s of pairs, ascending
\* by key, after every pair whose key is not above p's
RECURSIVE InsertSorted(_, _)
InsertSorted(s, p) ==
    IF s = <<>> THEN <<p>>
    ELSE IF NumLe(Head(s)[1], p[1]) THEN <<Head(s)>> \o InsertSorted(Tail(s), p)
         ELSE <<p>> \o s

\* a stable ascending sort of <<key, item>> pairs by key (mergesort's result)
RECURSIVE StableSort(_)
StableSort(s) ==
    IF s = <<>> THEN <<>>
    ELSE InsertSorted(StableSort(SubSeq(s, 1, Len(s) - 1)), s[Len(s)])

\* np.sort on a sequence of numbers
npSort(u) ==
    LET sorted == StableSort([i \in 1..Len(u) |-> <<u[i], u[i]>>])
    IN  [i \in 1..Len(u) |-> sorted[i][2]]

----------------------------------------------------------------------------
(* Vectors *)

Vec(c, vals) == [c |-> c, vals |-> vals, cats |-> <<>>]
CatVec(vals, cats) == [c |-> "category", vals |-> vals, cats |-> cats]
ListOf(vals) == Vec("list", vals)

\* variable_type with the storage test ahead of the test for 0/1 data
variable_type_dtype_first(vector, boolean_type) ==
    LET vals == vector.vals
        isin01(v) == v.k = "num" /\ v.n \in {0, 1}
    IN  IF vector.c = "category" THEN "categorical"
        ELSE IF \A i \in 1..Len(vals) : isna(vals[i]) THEN "numeric"
        ELSE IF vector.c = "float" THEN "numeric"
        ELSE IF \A i \in 1..Len(vals) : isin01(vals[i]) THEN boolean_type
        ELSE IF vector.c = "datetime" THEN "datetime"
        ELSE IF \A i \in 1..Len(vals) : IsNumber(vals[i]) THEN "numeric"
        ELSE IF \A i \in 1..Len(vals) : vals[i].k = "date" THEN "datetime"
        ELSE "categorical"

\* variable_type without the special case for all-null data
variable_type_no_null_rule(vector, boolean_type) ==
    LET vals == vector.vals
        isin01(v) == v.k = "num" /\ v.n \in {0, 1}
    IN  IF vector.c = "category" THEN "categorical"
        ELSE IF \A i \in 1..Len(vals) : isin01(vals[i]) THEN boolean_type
        ELSE IF vector.c = "float" THEN "numeric"
        ELSE IF vector.c = "datetime" THEN "datetime"
        ELSE IF \A i \in 1..Len(vals) : IsNumber(vals[i]) THEN "numeric"
        ELSE IF \A i \in 1..Len(vals) : vals[i].k = "date" THEN "datetime"
        ELSE "categorical"

\* variable_type(vector, boolean_type). The storage of a vector is its
\* container: "category" (categorical dtype), "float" (a numeric dtype),
\* "datetime" (datetime64, NaN standing for NaT), "object" or a Python list
variable_type(vector, boolean_type) ==
    LET vals == vector.vals
        \* np.isin(vector, [0, 1, np.nan]): elementwise ==, so NaN never matches
        isin01(v) == v.k = "num" /\ v.n \in {0, 1}
    IN  IF vector.c = "category" THEN "categorical"
        ELSE IF \A i \in 1..Len(vals) : isna(vals[i]) THEN "numeric"
        ELSE IF \A i \in 1..Len(vals) : isin01(vals[i]) THEN boolean_type
        ELSE IF vector.c = "float" THEN "numeric"
        ELSE IF vector.c = "datetime" THEN "datetime"
        \* all_numeric: NaN is a float, None is no Number
        ELSE IF \A i \in 1..Len(vals) : IsNumber(vals[i]) THEN "numeric"
        \* all_datetime
        ELSE IF \A i \in 1..Len(vals) : vals[i].k = "date" THEN "datetime"
        ELSE "categorical"

\* the outcome of a call: a return value or a raised exception
Ret(v) == [err |-> "", val |-> v]
Raise(e) == [err |-> e, val |-> <<>>]

\* np.sort on the unique values of a vector classified numeric: an object
\* array holding None beside another value cannot be compared
npSortRaises(u) == Len(u) > 1 /\ \E i \in 1..Len(u) : u[i].k = "none"

\* categorical_order(vector, order); order = <<FALSE>> encodes order=None,
\* <<TRUE, seq>> an explicit order
NoOrder == <<FALSE, <<>>>>
Explicit(o) == <<TRUE, o>>

\* categorical_order sorting only a vector without nulls: the numeric test
\* takes a NaN for a non-number
categorical_order_nan_unsorted(vector, order) ==
    IF order[1] THEN Ret(order[2])
    ELSE IF vector.c = "category" THEN Ret(SelectSeq(vector.cats, notnull))
    ELSE LET u == Unique(vector.vals)
         IN  IF \A i \in 1..Len(vector.vals) : vector.vals[i].k = "num"
             THEN Ret(SelectSeq(npSort(u), notnull))
             ELSE Ret(SelectSeq(u, notnull))

categorical_order(vector, order) ==
    IF order[1] THEN Ret(order[2])
    ELSE IF vector.c = "category" THEN Ret(SelectSeq(vector.cats, notnull))
    ELSE LET u == Unique(vector.vals)
         IN  IF variable_type(vector, "numeric") = "numeric"
             THEN IF npSortRaises(u) THEN Raise("TypeError")
                  ELSE Ret(SelectSeq(npSort(u), notnull))
             ELSE Ret(SelectSeq(u, notnull))

----------------------------------------------------------------------------
(* Semantic mappings *)

\* bool(v): the truth value Python gives a data value
Truthy(v) ==
    CASE v.k = "num" -> v.n # 0
      [] v.k = "str" -> v.s # ""
      [] v.k = "nan" -> TRUE
      [] OTHER -> FALSE

\* any(iterable) over a set of values
PyAny(S) == \E v \in S : Truthy(v)

\* dict(zip(keys, vals)): a later pair replaces an earlier one with the same key
DictZip(keys, vals) ==
    LET n == IF Len(keys) < Len(vals) THEN Len(keys) ELSE Len(vals)
        last(key) == CHOOSE i \in 1..n :
                        keys[i] = key /\ \A j \in (i + 1)..n : keys[j] # key
    IN  [key \in {keys[i] : i \in 1..n} |-> vals[last(key)]]

EmptyDict == [key \in {} |-> 0]

\* A mapping specification (palette, sizes, markers, dashes) as passed by the
\* caller: kind is the Python type the isinstance tests see
SpecNone == [kind |-> "None", dict |-> EmptyDict, list |-> <<>>, name |-> ""]
SpecDict(d) == [kind |-> "dict", dict |-> d, list |-> <<>>, name |-> ""]
SpecList(l) == [kind |-> "list", dict |-> EmptyDict, list |-> l, name |-> ""]
SpecTuple(l) == [kind |-> "tuple", dict |-> EmptyDict, list |-> l, name |-> ""]
SpecName(s) == [kind |-> "str", dict |-> EmptyDict, list |-> <<>>, name |-> s]
SpecTrue == [kind |-> "True", dict |-> EmptyDict, list |-> <<>>, name |-> ""]
SpecFalse == [kind |-> "False", dict |-> EmptyDict, list |-> <<>>, name |-> ""]
SpecOther == [kind |-> "other", dict |-> EmptyDict, list |-> <<>>, name |-> ""]

\* A color: the i-th entry of the palette pal
Color(pal, i) == [pal |-> pal, i |-> i]

\* len(get_color_cycle()): matplotlib's default property cycle
ColorCycleLen == 10

\* color_palette(name, n_colors): n colors of the named palette
color_palette(name, n_colors) == [i \in 1..n_colors |-> Color(name, i)]

\* HueMapping.categorical_mapping(data, palette, order)
\*   -> Ret([levels, lookup_table]) or a raised ValueError
HueCategoricalMapping(data, palette, order) ==
    LET lv == categorical_order(data, order)
        levels == lv.val
        n_colors == Len(levels)
        missing == Range(levels) \ DOMAIN palette.dict
        colors == IF palette.kind = "None"
                  THEN IF n_colors <= ColorCycleLen
                       THEN color_palette("cycle", n_colors)
                       ELSE color_palette("husl", n_colors)
                  ELSE IF palette.kind = "list" THEN palette.list
                  ELSE color_palette(palette.name, n_colors)
    IN  IF lv.err # "" THEN lv
        ELSE IF palette.kind = "dict"
        THEN IF PyAny(missing) THEN Raise("ValueError")
             ELSE Ret([levels |-> levels, lookup_table |-> palette.dict])
        ELSE IF palette.kind = "list" /\ Len(palette.list) # n_colors
        THEN Raise("ValueError")
        ELSE Ret([levels |-> levels, lookup_table |-> DictZip(levels, colors)])

\* A size: the rational num / den
Size(num, den) == [num |-> num, den |-> den]

\* VectorPlotter._default_size_range
default_size_range == <<Size(1, 1), Size(2, 1)>>

\* np.linspace(lo, hi, n)[::-1] for whole numbers lo, hi: n evenly spaced
\* sizes from hi down to lo; linspace(lo, hi, 1) is [lo]
linspace_reversed(lo, hi, n) ==
    IF n = 1 THEN <<Size(lo, 1)>>
    ELSE [i \in 1..n |-> Size(hi * (n - 1) - (hi - lo) * (i - 1), n - 1)]

\* SizeMapping.categorical_mapping(data, sizes, order)
SizeCategoricalMapping(data, sizes, order) ==
    LET lv == categorical_order(data, order)
        levels == lv.val
        missing == Range(levels) \ DOMAIN sizes.dict
        range == IF sizes.kind = "tuple" THEN sizes.list ELSE default_size_range
        ramp == linspace_reversed(range[1].num, range[2].num, Len(levels))
    IN  IF lv.err # "" THEN lv
        ELSE IF sizes.kind = "dict"
        THEN IF PyAny(missing) THEN Raise("ValueError")
             ELSE Ret([levels |-> levels, lookup_table |-> sizes.dict])
        ELSE IF sizes.kind = "list"
        THEN IF Len(sizes.list) # Len(levels) THEN Raise("ValueError")
             ELSE Ret([levels |-> levels,
                       lookup_table |-> DictZip(levels, sizes.list)])
        ELSE IF sizes.kind = "tuple" /\ Len(sizes.list) # 2 THEN Raise("ValueError")
        ELSE IF sizes.kind \notin {"tuple", "None"} THEN Raise("ValueError")
        ELSE Ret([levels |-> levels, lookup_table |-> DictZip(levels, ramp)])

\* unique_markers(n) / unique_dashes(n): n distinct generated defaults
unique_defaults(attr, n) == [i \in 1..n |-> Color(attr, i)]

\* StyleMapping._map_attributes(arg, levels, defaults, attr) -> lookup table
\* kind "other" is a truthy argument that is no dict and no sequence
map_attributes(arg, levels, defaults, attr) ==
    LET missing == Range(levels) \ DOMAIN arg.dict
    IN  IF arg.kind = "True" THEN Ret(DictZip(levels, defaults))
        ELSE IF arg.kind = "dict"
        THEN IF missing # {} THEN Raise("ValueError") ELSE Ret(arg.dict)
        ELSE IF arg.kind \in {"list", "tuple"}
        THEN IF Len(levels) # Len(arg.list) THEN Raise("ValueError")
             ELSE Ret(DictZip(levels, arg.list))
        ELSE IF arg.kind = "other" THEN Raise("ValueError")
        ELSE Ret(EmptyDict)

----------------------------------------------------------------------------
(* Tables (pandas DataFrames)                                              *)
(* A table is [index, cols]: index the sequence of row labels, cols a      *)
(* function from column name to the column's vector; every column has one  *)
(* value per row. The order of the columns is not modelled.                *)

Positions(t) == [i \in 1..Len(t.index) |-> i]

\* the rows of t at the positions keep, in that order
TakeRows(t, keep) ==
    [index |-> [i \in 1..Len(keep) |-> t.index[keep[i]]],
     cols |-> [c \in DOMAIN t.cols |->
                [t.cols[c] EXCEPT !.vals = [i \in 1..Len(keep) |-> @[keep[i]]]]]]

\* a dropna that removes no row
dropna_keep_all(t) == t

\* DataFrame.dropna(): the rows without a null in any column
dropna(t) ==
    TakeRows(t, SelectSeq(Positions(t),
                          LAMBDA i : \A c \in DOMAIN t.cols : notnull(t.cols[c].vals[i])))

\* position of the row labelled lab
PosOf(t, lab) == CHOOSE i \in 1..Len(t.index) : t.index[i] = lab

\* position of v in the sequence s (v occurs in s)
IndexIn(s, v) == CHOOSE i \in 1..Len(s) : s[i] = v /\ \A j \in 1..(i - 1) : s[j] # v

----------------------------------------------------------------------------
(* Axis objects (matplotlib Axis): the unit converters the plotter binds   *)
(* to. An axis is [units, scale]: units the categories registered so far   *)
(* (set = FALSE while the axis has no category converter), scale "linear"  *)
(* or "log". Axes are named <<var, i>>: the var-axis of the i-th Axes.     *)

NewAxis == [units |-> [set |-> FALSE, cats |-> <<>>], scale |-> "linear"]

\* s followed by the values of u that s lacks, in u's order
RECURSIVE Register(_, _)
Register(s, u) ==
    IF u = <<>> THEN s
    ELSE Register(IF Head(u) \in Range(s) THEN s ELSE Append(s, Head(u)), Tail(u))

AllStr(vals) == \A i \in 1..Len(vals) : vals[i].k = "str"
AllNumlike(vals) == \A i \in 1..Len(vals) : vals[i].k # "str"

\* Axis.update_units(data): data whose first value is a string gives the axis
\* a category converter and registers the unseen strings; a non-string among
\* them is a TypeError; numeric or empty data changes nothing
update_units(axis, data) ==
    IF data = <<>> \/ data[1].k # "str" THEN Ret(axis)
    ELSE IF ~AllStr(data) THEN Raise("TypeError")
    ELSE Ret([axis EXCEPT !.units = [set |-> TRUE, cats |-> Register(@.cats, data)]])

\* Axis.convert_units(x) -> [err, axis, val]: numbers pass through; strings
\* are registered and mapped to their category index; strings on an axis
\* without category information are a ValueError
convert_units(axis, vals) ==
    IF AllNumlike(vals) THEN [err |-> "", axis |-> axis, val |-> vals]
    ELSE IF ~axis.units.set THEN [err |-> "ValueError", axis |-> axis, val |-> <<>>]
    ELSE IF ~AllStr(vals) THEN [err |-> "TypeError", axis |-> axis, val |-> <<>>]
    ELSE LET cats == Register(axis.units.cats, vals)
         IN  [err |-> "",
              axis |-> [axis EXCEPT !.units.cats = cats],
              val |-> [i \in 1..Len(vals) |-> Num(IndexIn(cats, vals[i]) - 1)]]

\* np.log10 of a value, kept symbolic: [k |-> "log10"] of the number n
Log10(v) == IF v.k = "num" THEN [k |-> "log10", n |-> v.n, s |-> ""] ELSE v

----------------------------------------------------------------------------
(* The VectorPlotter object                                                *)
(*   plot_data    the tidy table                                           *)
(*   variables    role -> source name ("" is None)                         *)
(*   var_types    role -> "numeric" | "categorical" | "datetime"           *)
(*   var_levels   the _var_levels dict: role -> sequence of levels         *)
(*   var_ordered  the _var_ordered dict of the two axes                    *)
(*   maps         _hue_map, _size_map, _style_map: [absent, levels]        *)
(*   attached     hasattr(self, "ax")                                      *)
(*   facets       the attached FacetGrid, or NoGrid (a single Axes)        *)
(*   converters   the converters dict: var -> sequence of <<row label,     *)
(*                axis name>> in the index order at _attach (NoAxis: none) *)
(*   has_converters   hasattr(self, "converters")                          *)
(*   axes         the state of every axis object of the attached surface   *)
(*   comp_data    the _comp_data cache: [set, table]                       *)

MapRoles == {"hue", "size", "style"}
FacetRoles == {"col", "row"}
NoAxis == <<"", 0>>
NoGrid == [none |-> TRUE]
AbsentMap == [absent |-> TRUE, levels |-> <<>>]

\* the levels attribute of a mapping in the absent state: None
NoneLevels == <<[k |-> "NoneType", n |-> 0, s |-> ""]>>

\* the var_levels property: copies the levels of the semantic mappings of the
\* bound roles into _var_levels, then returns it
var_levels(p) ==
    LET mapped ==  DOMAIN p.variables \cap MapRoles
    IN  [r \in DOMAIN p.var_levels \cup mapped |->
            IF r \in mapped
            THEN IF p.maps[r].absent THEN NoneLevels ELSE p.maps[r].levels
            ELSE p.var_levels[r]]

\* the axis names of a converters vector in order of first appearance; rows
\* without a converter form no group
ConverterGroups(conv) ==
    SelectSeq(Unique([i \in 1..Len(conv) |-> conv[i][2]]), LAMBDA a : a # NoAxis)

\* the converter recorded for the row labelled lab (NoAxis when none)
ConverterOf(conv, lab) ==
    IF \E i \in 1..Len(conv) : conv[i][1] = lab
    THEN conv[CHOOSE i \in 1..Len(conv) : conv[i][1] = lab][2]
    ELSE NoAxis

\* Series.isin(levels)
isin(v, levels) == \E i \in 1..Len(levels) : PyEq(v, levels[i])

\* comp_data, the loop over the converters of one variable: groups is the
\* list of axes still to do, acc = [err, axes, vals, merged] the state so far;
\* vals maps a row label to its converted value
RECURSIVE CompParts(_, _, _, _)

\* orig = orig.dropna(); orig = orig[orig.isin(var_levels[var])]: the positions
\* of the rows of the group of axis a that are converted
CompOrig(p, var, a, lv) ==
    SelectSeq(Positions(p.plot_data), LAMBDA i :
        /\ ConverterOf(p.converters[var], p.plot_data.index[i]) = a
        /\ notnull(p.plot_data.cols[var].vals[i])
        /\ (var \in DOMAIN lv => isin(p.plot_data.cols[var].vals[i], lv[var])))

\* parts.append(pd.Series(comp, orig.index)) with conv the outcome of
\* convert_units(orig), then the rest of the loop
CompPart(p, var, groups, acc, orig, conv) ==
    IF conv.err # "" THEN [acc EXCEPT !.err = conv.err, !.merged = TRUE]
    ELSE CompParts(p, var, Tail(groups),
            [err |-> "",
             axes |-> [acc.axes EXCEPT ![Head(groups)] = conv.axis],
             vals |-> [lab \in DOMAIN acc.vals \cup
                              {p.plot_data.index[orig[i]] : i \in 1..Len(orig)} |->
                         IF \E i \in 1..Len(orig) : p.plot_data.index[orig[i]] = lab
                         THEN LET v == conv.val[CHOOSE i \in 1..Len(orig) :
                                                   p.plot_data.index[orig[i]] = lab]
                              IN  IF acc.axes[Head(groups)].scale = "log"
                                  THEN Log10(v) ELSE v
                         ELSE acc.vals[lab]],
             merged |-> TRUE])

\* comp = converter.convert_units(orig)
CompConvert(p, var, groups, acc, orig) ==
    CompPart(p, var, groups, acc, orig,
             convert_units(acc.axes[Head(groups)],
                           [i \in 1..Len(orig) |-> p.plot_data.cols[var].vals[orig[i]]]))

CompParts(p, var, groups, acc) ==
    IF groups = <<>> \/ acc.err # "" THEN acc
    ELSE CompConvert(p, var, groups, acc, CompOrig(p, var, Head(groups), var_levels(p)))

\* the column of converted values, aligned on the row labels of plot_data
CompColumn(t, vals) ==
    Vec("float", [i \in 1..Len(t.index) |->
                    IF t.index[i] \in DOMAIN vals THEN vals[t.index[i]] ELSE NaN])

NoVals == [lab \in {} |-> NaN]

\* comp_data once the loop "for var in 'yx'" has run: ydone and xdone are
\* the states after the y and the x pass
CompResult(p, ydone, xdone) ==
    LET has(var) == var \in DOMAIN p.variables
        missing(var) == has(var) /\ var \notin DOMAIN p.converters
        kept == (DOMAIN p.plot_data.cols \ {"x", "y"}) \cup {c \in {"x", "y"} : has(c)}
        table == [index |-> p.plot_data.index,
                  cols |-> [c \in kept |->
                              IF c = "y" THEN CompColumn(p.plot_data, ydone.vals)
                              ELSE IF c = "x" THEN CompColumn(p.plot_data, xdone.vals)
                              ELSE p.plot_data.cols[c]]]
        merged == [p EXCEPT !.var_levels = IF xdone.merged THEN var_levels(p) ELSE @,
                            !.axes = xdone.axes]
    IN  IF missing("y") \/ (ydone.err = "" /\ missing("x"))
        THEN [err |-> IF p.has_converters THEN "KeyError" ELSE "AttributeError",
              plotter |-> [p EXCEPT !.axes = ydone.axes],
              table |-> p.plot_data]
        ELSE IF xdone.err # ""
        THEN [err |-> xdone.err, plotter |-> merged, table |-> p.plot_data]
        ELSE [err |-> "",
              plotter |-> [merged EXCEPT !.comp_data = [set |-> TRUE, table |-> table]],
              table |-> table]

\* the x pass, after the y pass ended in ydone
CompX(p, ydone) ==
    CompResult(p, ydone,
        IF "x" \in DOMAIN p.variables /\ "x" \in DOMAIN p.converters /\ ydone.err = ""
        THEN CompParts(p, "x", ConverterGroups(p.converters["x"]),
                       [ydone EXCEPT !.vals = NoVals])
        ELSE ydone)

\* the comp_data property -> [err, plotter, table]
comp_data(p) ==
    IF ~p.attached THEN [err |-> "", plotter |-> p, table |-> p.plot_data]
    ELSE IF p.comp_data.set
    THEN [err |-> "", plotter |-> p, table |-> p.comp_data.table]
    ELSE CompX(p,
            IF "y" \in DOMAIN p.variables /\ "y" \in DOMAIN p.converters
            THEN CompParts(p, "y", ConverterGroups(p.converters["y"]),
                           [err |-> "", axes |-> p.axes, vals |-> NoVals,
                            merged |-> FALSE])
            ELSE [err |-> "", axes |-> p.axes, vals |-> NoVals, merged |-> FALSE])

----------------------------------------------------------------------------
(* iter_data *)

\* the orders in which a Python set of strings may be iterated: the order
\* depends on the string hashes, which differ from process to process
SetOrders(S) == {s \in [1..Cardinality(S) -> S] : Range(s) = S}

\* itertools.product(*seqs): the last sequence varies fastest
\* a product in which an empty sequence counts as the one element None
RECURSIVE Product_none_for_empty(_)
Product_none_for_empty(seqs) ==
    IF seqs = <<>> THEN <<<<>>>>
    ELSE LET rest == Product_none_for_empty(Tail(seqs))
             first == IF Head(seqs) = <<>> THEN <<None>> ELSE Head(seqs)
             n == Len(rest)
         IN  [i \in 1..(Len(first) * n) |->
                <<first[((i - 1) \div n) + 1]>> \o rest[((i - 1) % n) + 1]]

RECURSIVE Product(_)
Product(seqs) ==
    IF seqs = <<>> THEN <<<<>>>>
    ELSE LET rest == Product(Tail(seqs))
             first == Head(seqs)
             n == Len(rest)
         IN  [i \in 1..(Len(first) * n) |->
                <<first[((i - 1) \div n) + 1]>> \o rest[((i - 1) % n) + 1]]

\* _log_scaled(axis) -> [err, val]
log_scaled(p, axis) ==
    LET names == {a \in DOMAIN p.axes : a[1] = axis}
    IN  IF ~p.attached THEN [err |-> "", val |-> FALSE]
        ELSE IF (\E a \in names : p.axes[a].scale = "log")
                /\ (\E a \in names : p.axes[a].scale # "log")
        THEN [err |-> "RuntimeError", val |-> FALSE]
        ELSE [err |-> "", val |-> \E a \in names : p.axes[a].scale = "log"]

\* levels[axis] = converter.convert_units(levels[axis]), conv the outcome
AxisConverted(st, axis, a, conv) ==
    IF conv.err # "" THEN [st EXCEPT !.err = conv.err]
    ELSE [err |-> "",
          axes |-> [st.axes EXCEPT ![a] = conv.axis],
          levels |-> [st.levels EXCEPT ![axis] = conv.val]]

\* levels[axis] = np.log10(levels[axis]) when the axis is log-scaled, ls the
\* outcome of _log_scaled(axis)
AxisLogged(st, axis, ls) ==
    IF ls.err # "" THEN [st EXCEPT !.err = ls.err]
    ELSE IF ~ls.val THEN st
    ELSE IF axis \notin DOMAIN st.levels THEN [st EXCEPT !.err = "KeyError"]
    ELSE [st EXCEPT !.levels[axis] = [i \in 1..Len(@) |-> Log10(@[i])]]

\* iter_data with from_comp_data: the levels of one axis variable in plot
\* units; st = [err, axes, levels]
AxisLevels(p, data, axis, st) ==
    IF st.err # "" THEN st
    ELSE IF p.var_types[axis] = "categorical"
    THEN IF p.var_ordered[axis]
         THEN IF axis \notin DOMAIN p.converters \/ axis \notin DOMAIN st.levels
              THEN [st EXCEPT !.err = "KeyError"]
              ELSE IF p.converters[axis] = <<>> THEN [st EXCEPT !.err = "IndexError"]
              ELSE IF p.converters[axis][1][2] = NoAxis
              THEN [st EXCEPT !.err = "AttributeError"]
              ELSE AxisConverted(st, axis, p.converters[axis][1][2],
                        convert_units(st.axes[p.converters[axis][1][2]], st.levels[axis]))
         ELSE IF axis \notin DOMAIN data.cols THEN [st EXCEPT !.err = "KeyError"]
         ELSE [st EXCEPT !.levels =
                 [r \in DOMAIN st.levels \cup {axis} |->
                    IF r = axis THEN npSort(Unique(data.cols[axis].vals))
                    ELSE st.levels[r]]]
    ELSE IF p.var_types[axis] = "numeric"
    THEN AxisLogged(st, axis, log_scaled(p, axis))
    ELSE st

\* the rows of data whose first grouping column equals the first key component
GetGroup_first_role(data, grouping_vars, key) ==
    TakeRows(data, SelectSeq(Positions(data), LAMBDA i :
        PyEq(data.cols[grouping_vars[1]].vals[i], key[1])))

\* the rows of data that the group-by puts under key: every grouping column
\* equals its key component
GetGroup(data, grouping_vars, key) ==
    TakeRows(data, SelectSeq(Positions(data), LAMBDA i :
        \A j \in 1..Len(grouping_vars) :
            PyEq(data.cols[grouping_vars[j]].vals[i], key[j])))

\* the loop over iter_keys without the skip of empty subsets
RECURSIVE Yields_keep_empty(_, _, _, _)
Yields_keep_empty(data, grouping_vars, keys, allow_empty) ==
    IF keys = <<>> THEN <<>>
    ELSE <<[key |-> Head(keys),
            sub_vars |-> DictZip(grouping_vars, Head(keys)),
            data |-> GetGroup(data, grouping_vars, Head(keys))]>>
         \o Yields_keep_empty(data, grouping_vars, Tail(keys), allow_empty)

\* one turn of the loop over iter_keys: data_subset is the group of the key
YieldOne(grouping_vars, key, data_subset, allow_empty) ==
    IF data_subset.index = <<>> /\ ~allow_empty THEN <<>>
    ELSE <<[key |-> key, sub_vars |-> DictZip(grouping_vars, key), data |-> data_subset]>>

\* the (sub_vars, sub_data) pairs of the loop over iter_keys
RECURSIVE Yields(_, _, _, _)
Yields(data, grouping_vars, keys, allow_empty) ==
    IF keys = <<>> THEN <<>>
    ELSE YieldOne(grouping_vars, Head(keys),
                  GetGroup(data, grouping_vars, Head(keys)), allow_empty)
         \o Yields(data, grouping_vars, Tail(keys), allow_empty)

\* grouping_vars as the caller passes it: None, a string, a list or a tuple
GroupNone == [kind |-> "None", list |-> <<>>]
GroupStr(s) == [kind |-> "str", list |-> <<s>>]
GroupList(l) == [kind |-> "list", list |-> l]
GroupTuple(l) == [kind |-> "tuple", list |-> l]

\* every bound facet variable, given by the caller or not
FacetExtra_all(p, given) == FacetRoles \cap DOMAIN p.variables

\* the facet variables iter_data adds: a set
FacetExtra(p, given) == FacetRoles \cap (DOMAIN p.variables \ Range(given))

\* grouping_vars after "Always insert faceting variables"; facet_order is the
\* order in which the set of added facet variables is iterated
ExtendedVars(p, grouping, by_facet, facet_order) ==
    IF by_facet THEN grouping.list \o facet_order ELSE grouping.list

\* grouping_vars without the reduction to the roles of the plot
EffectiveVars_unreduced(p, grouping, by_facet, facet_order) ==
    IF by_facet THEN grouping.list \o facet_order ELSE grouping.list

\* grouping_vars after "Reduce to the semantics used in this plot"
EffectiveVars(p, grouping, by_facet, facet_order) ==
    SelectSeq(ExtendedVars(p, grouping, by_facet, facet_order),
              LAMBDA var : var \in DOMAIN p.variables)

\* iter_data from "if grouping_vars:" on: p is the plotter, data the table
\* and levels the levels copy at that point
IterGroups(p, data, levels, grouping_vars, caller_list, opt) ==
    LET grouping_keys == [j \in 1..Len(grouping_vars) |->
                            IF grouping_vars[j] \in DOMAIN levels
                            THEN levels[grouping_vars[j]] ELSE <<>>]
        fail(e) == [err |-> e, plotter |-> p, yields |-> <<>>,
                    caller_list |-> caller_list, grouping_vars |-> grouping_vars]
    IN  IF grouping_vars = <<>>
        THEN [err |-> "", plotter |-> p,
              yields |-> <<[key |-> <<>>, sub_vars |-> EmptyDict, data |-> data]>>,
              caller_list |-> caller_list, grouping_vars |-> grouping_vars]
        ELSE IF \E j \in 1..Len(grouping_vars) : grouping_vars[j] \notin DOMAIN data.cols
        THEN fail("KeyError")
        ELSE IF \E j \in 1..Len(grouping_keys) : grouping_keys[j] = NoneLevels
        THEN fail("TypeError")
        ELSE [err |-> "", plotter |-> p,
              yields |-> Yields(data, grouping_vars,
                                IF opt.reverse THEN Reverse(Product(grouping_keys))
                                ELSE Product(grouping_keys),
                                opt.allow_empty),
              caller_list |-> caller_list, grouping_vars |-> grouping_vars]

\* iter_data after the loop "for axis in {'x', 'y'} & set(grouping_vars)",
\* which ended in st = [err, axes, levels]
IterLevelled(p, data, st, grouping_vars, caller_list, opt) ==
    IF st.err # ""
    THEN [err |-> st.err, plotter |-> [p EXCEPT !.axes = st.axes], yields |-> <<>>,
          caller_list |-> caller_list, grouping_vars |-> grouping_vars]
    ELSE IterGroups([p EXCEPT !.axes = st.axes], data, st.levels,
                    grouping_vars, caller_list, opt)

\* one turn of "for axis in {'x', 'y'} & set(grouping_vars)"
AxisPass(p, data, axis, grouping_vars, st) ==
    IF axis \in Range(grouping_vars) THEN AxisLevels(p, data, axis, st) ELSE st

\* levels = self.var_levels.copy() and the conversion of the axis levels; p
\* is the plotter after the var_levels property merged the mappings
IterLevels(p, data, grouping_vars, caller_list, opt) ==
    IterLevelled(p, data,
        IF ~opt.from_comp_data
        THEN [err |-> "", axes |-> p.axes, levels |-> p.var_levels]
        ELSE AxisPass(p, data, "y", grouping_vars,
                AxisPass(p, data, "x", grouping_vars,
                    [err |-> "", axes |-> p.axes, levels |-> p.var_levels])),
        grouping_vars, caller_list, opt)

\* iter_data once data is chosen: cd = [err, plotter, table] is the outcome of
\* the comp_data property, or the plotter and its plot_data
IterTableChosen(cd, grouping_vars, caller_list, opt) ==
    IF cd.err # ""
    THEN [err |-> cd.err, plotter |-> cd.plotter, yields |-> <<>>,
          caller_list |-> caller_list, grouping_vars |-> grouping_vars]
    ELSE IterLevels([cd.plotter EXCEPT !.var_levels = var_levels(cd.plotter)],
                    IF opt.dropna THEN dropna(cd.table) ELSE cd.table,
                    grouping_vars, caller_list, opt)

\* iter_data(grouping_vars, reverse=, from_comp_data=, by_facet=, allow_empty=,
\* dropna=), consumed to its end
\*   -> [err, plotter, yields, caller_list, grouping_vars]
\* caller_list is the caller's list object after the call
iter_data(p, grouping, opt, facet_order) ==
    IterTableChosen(
        IF opt.from_comp_data THEN comp_data(p)
        ELSE [err |-> "", plotter |-> p, table |-> p.plot_data],
        EffectiveVars(p, grouping, opt.by_facet, facet_order),
        IF grouping.kind = "list"
        THEN ExtendedVars(p, grouping, opt.by_facet, facet_order) ELSE grouping.list,
        opt)

----------------------------------------------------------------------------
(* _attach *)

\* A FacetGrid: the name lists (names.set = FALSE: None), the sharing flags
\* ("True", "False", "col" or "row") and an nrow x ncol array of Axes, the
\* Axes at (r, c) being number (r - 1) * ncol + c of axes.flatten()
Names(l) == [set |-> TRUE, list |-> l]
NoNames == [set |-> FALSE, list |-> <<>>]
GridDim(names) == IF names.set /\ names.list # <<>> THEN Len(names.list) ELSE 1
Grid(col_names, row_names, sharex, sharey) ==
    [col_names |-> col_names, row_names |-> row_names,
     sharex |-> sharex, sharey |-> sharey,
     nrow |-> GridDim(row_names), ncol |-> GridDim(col_names)]

NamesOf(obj, r) == IF r = "col" THEN obj.col_names ELSE obj.row_names

\* the number of Axes of the attached object
NAxes(obj) == IF obj = NoGrid THEN 1 ELSE obj.nrow * obj.ncol

\* the fresh axis objects of a surface that was just created
FreshAxes(obj) == [a \in {"x", "y"} \X (1..NAxes(obj)) |-> NewAxis]

\* _get_axes(sub_vars) -> [err, val]: the number of the Axes of one facet
get_axes(p, sub_vars) ==
    LET g == p.facets
        has(r) == r \in DOMAIN sub_vars
        ok(r, names) == ~has(r) \/ sub_vars[r] \in Range(names.list)
        ri == IF has("row") THEN IndexIn(g.row_names.list, sub_vars["row"]) ELSE 1
        ci == IF has("col") THEN IndexIn(g.col_names.list, sub_vars["col"]) ELSE 1
    IN  IF p.facets = NoGrid THEN [err |-> "", val |-> 1]
        ELSE IF ~ok("row", g.row_names) \/ ~ok("col", g.col_names)
        THEN [err |-> "KeyError", val |-> 0]
        ELSE IF ~has("row") /\ ~has("col") /\ NAxes(g) # 1
        THEN [err |-> "AttributeError", val |-> 0]
        ELSE [err |-> "", val |-> (ri - 1) * g.ncol + ci]

\* converter.loc[axes_data.index] = ax.<var>axis, ax the outcome of _get_axes
FacetConverter(acc, var, y, ax) ==
    IF ax.err # "" THEN [acc EXCEPT !.err = ax.err]
    ELSE [acc EXCEPT !.val = [lab \in DOMAIN @ |->
            IF lab \in Range(y.data.index) THEN <<var, ax.val>> ELSE @[lab]]]

\* for axes_vars, axes_data in self.iter_data(): ... -> [err, val]: row label
\* -> axis name
RECURSIVE FacetConverters(_, _, _, _)
FacetConverters(p, var, yields, acc) ==
    IF yields = <<>> \/ acc.err # "" THEN acc
    ELSE FacetConverters(p, var, Tail(yields),
            FacetConverter(acc, var, Head(yields), get_axes(p, Head(yields).sub_vars)))

\* share_state = getattr(self.facets, f"_share{var}", True)
ShareState(p, var) ==
    IF p.facets = NoGrid THEN "True"
    ELSE IF var = "x" THEN p.facets.sharex ELSE p.facets.sharey

\* no axes shared: the axis of the facet of each row; it is the outcome of
\* iter_data()
ConverterPerFacet(p, var, it, perfacet) ==
    [err |-> perfacet.err, plotter |-> it.plotter, val |-> perfacet.val]

ConverterUnshared(p, var, it) ==
    ConverterPerFacet(p, var, it,
        FacetConverters(it.plotter, var, it.yields,
                        [err |-> it.err,
                         val |-> [lab \in Range(p.plot_data.index) |-> NoAxis]]))

\* axes shared within each "file" of the grid (share_state "col" or "row"):
\* converter.loc[self.plot_data[share_state] == level] = axis
ConverterPerFile(p, var, share_state) ==
    LET t == p.plot_data
        names == IF share_state = "row" THEN p.facets.row_names.list
                 ELSE p.facets.col_names.list
        lastlevel(v) == CHOOSE i \in 1..Len(names) :
                            PyEq(v, names[i]) /\ \A j \in (i + 1)..Len(names) : ~PyEq(v, names[j])
        axno(i) == IF share_state = "row" THEN (i - 1) * p.facets.ncol + 1 ELSE i
    IN  [lab \in Range(t.index) |->
            IF isin(t.cols[share_state].vals[PosOf(t, lab)], names)
            THEN <<var, axno(lastlevel(t.cols[share_state].vals[PosOf(t, lab)]))>>
            ELSE NoAxis]

\* the converter vector of one axis variable -> [err, plotter, val]
ConverterVector(p, var, facet_order) ==
    IF ShareState(p, var) = "True"
       \/ ShareState(p, var) = (IF var = "x" THEN "row" ELSE "col")
    THEN [err |-> "", plotter |-> p,
          val |-> [lab \in Range(p.plot_data.index) |-> <<var, 1>>]]
    ELSE IF ShareState(p, var) = "False"
    THEN ConverterUnshared(p, var,
            iter_data(p, GroupNone,
                      [reverse |-> FALSE, from_comp_data |-> FALSE, by_facet |-> TRUE,
                       allow_empty |-> FALSE, dropna |-> TRUE], facet_order))
    ELSE IF ShareState(p, var) \notin DOMAIN p.plot_data.cols
    THEN [err |-> "KeyError", plotter |-> p,
          val |-> [lab \in Range(p.plot_data.index) |-> NoAxis]]
    ELSE [err |-> "", plotter |-> p, val |-> ConverterPerFile(p, var, ShareState(p, var))]

\* for converter, seed_data in grouped: ... converter.update_units(seed_data)
\* acc = [err, axes]
RECURSIVE SeedUnits(_, _, _, _, _)

\* converter.update_units(seed_data): upd is its outcome
SeedUpdated(p, var, conv, groups, acc, upd) ==
    IF upd.err # "" THEN [acc EXCEPT !.err = upd.err]
    ELSE SeedUnits(p, var, conv, Tail(groups), [acc EXCEPT !.axes[Head(groups)] = upd.val])

\* seed is the outcome of categorical_order(seed_data, order), or the data
SeedOrdered(p, var, conv, groups, acc, seed) ==
    IF seed.err # "" THEN [acc EXCEPT !.err = seed.err]
    ELSE SeedUpdated(p, var, conv, groups, acc,
                     update_units(acc.axes[Head(groups)], seed.val))

\* the rows of the column var that the converter a serves
SeedData(p, var, conv, a) ==
    LET rows == SelectSeq(Positions(p.plot_data), LAMBDA i :
                    ConverterOf(conv, p.plot_data.index[i]) = a)
    IN  [p.plot_data.cols[var] EXCEPT
            !.vals = [i \in 1..Len(rows) |-> p.plot_data.cols[var].vals[rows[i]]]]

SeedUnits(p, var, conv, groups, acc) ==
    IF groups = <<>> \/ acc.err # "" THEN acc
    ELSE IF p.var_types[var] # "categorical"
    THEN SeedOrdered(p, var, conv, groups, acc,
                     Ret(SeedData(p, var, conv, Head(groups)).vals))
    ELSE IF p.var_ordered[var] /\ var \notin DOMAIN var_levels(p)
    THEN [acc EXCEPT !.err = "KeyError"]
    ELSE SeedOrdered(p, var, conv, groups, acc,
            categorical_order(SeedData(p, var, conv, Head(groups)),
                              IF p.var_ordered[var] THEN Explicit(var_levels(p)[var])
                              ELSE NoOrder))

\* self.converters[var] = converter, then the update of the units; p is the
\* plotter, conv the converter vector as a sequence of <<label, axis>>
AttachSeeded(p, seeded) ==
    [err |-> seeded.err, plotter |-> [p EXCEPT !.axes = seeded.axes]]

AttachConverter(p, var, conv) ==
    AttachSeeded(p, SeedUnits(p, var, conv, ConverterGroups(conv),
                              [err |-> "", axes |-> p.axes]))

\* cv is the outcome of ConverterVector
AttachConverted(p, var, cv) ==
    IF cv.err # "" THEN [err |-> cv.err, plotter |-> cv.plotter]
    ELSE AttachConverter(
            [cv.plotter EXCEPT !.converters =
                [v \in DOMAIN @ \cup {var} |->
                    IF v = var
                    THEN [i \in 1..Len(p.plot_data.index) |->
                            <<p.plot_data.index[i], cv.val[p.plot_data.index[i]]>>]
                    ELSE @[v]]],
            var,
            [i \in 1..Len(p.plot_data.index) |->
                <<p.plot_data.index[i], cv.val[p.plot_data.index[i]]>>])

\* the body of "for var in axis_variables" for one variable; st = [err, plotter]
AttachVar(st, var, facet_order) ==
    IF st.err # "" \/ var \notin DOMAIN st.plotter.variables THEN st
    ELSE AttachConverted(st.plotter, var, ConverterVector(st.plotter, var, facet_order))

NoConverters == [v \in {} |-> <<>>]

\* "Set numerical axis scales": vy = [err, plotter] is the outcome of the loop
\* over the axis variables
AttachScaled(vy, log_scale) ==
    IF vy.err # "" THEN vy
    ELSE [err |-> "",
          plotter |-> [vy.plotter EXCEPT !.axes =
                [a \in DOMAIN @ |->
                    IF (a[1] = "x" /\ log_scale[1]) \/ (a[1] = "y" /\ log_scale[2])
                    THEN [@[a] EXCEPT !.scale = "log"] ELSE @[a]]]]

ErrVarType == "TypeError: The variable is not of one of the allowed types"

\* every type allowed, whatever allowed_types is
AllowedTypes_any(allowed_types) == {"numeric", "datetime", "categorical"}

\* allowed_types after "if allowed_types is None: ... elif isinstance(
\* allowed_types, str): ...": the argument is None, a string or a list
AllowedTypes(allowed_types) ==
    IF allowed_types.kind = "None" THEN {"numeric", "datetime", "categorical"}
    ELSE IF allowed_types.kind = "str" THEN {allowed_types.name}
    ELSE Range(allowed_types.list)

\* _attach after self.ax, self.facets and the facet levels are set: p1 is the
\* plotter at that point
AttachTyped(p1, allowed_types, log_scale, facet_order) ==
    IF \E var \in {"x", "y"} \cap DOMAIN p1.variables :
            p1.var_types[var] \notin AllowedTypes(allowed_types)
    THEN [err |-> ErrVarType, plotter |-> p1]
    ELSE AttachScaled(
            AttachVar(AttachVar([err |-> "",
                                 plotter |-> [p1 EXCEPT !.converters = NoConverters,
                                                        !.has_converters = TRUE]],
                                "x", facet_order),
                      "y", facet_order),
            log_scale)

\* _attach(obj, allowed_types, log_scale) -> [err, plotter]
\* obj is NoGrid (a single Axes) or a FacetGrid; allowed_types None, a string
\* or a list of strings; log_scale = <<scalex, scaley>> after unpacking
attach(p, obj, allowed_types, log_scale, facet_order) ==
    LET lv == var_levels(p)
        named == {r \in FacetRoles : obj # NoGrid /\ NamesOf(obj, r).set}
    IN  AttachTyped(
            [p EXCEPT !.attached = TRUE, !.facets = obj, !.axes = FreshAxes(obj),
                      \* self.var_levels["col"] = obj.col_names, the same for "row"
                      !.var_levels = IF named = {} THEN @
                                     ELSE [r \in DOMAIN lv \cup named |->
                                            IF r \in named THEN NamesOf(obj, r).list
                                            ELSE lv[r]]],
            allowed_types, log_scale, facet_order)

----------------------------------------------------------------------------
(* scale_categorical *)

\* str(v)
PyStr(v) ==
    CASE v.k = "num" -> Str(ToString(v.n) \o ".0")
      [] v.k = "nan" -> Str("nan")
      [] v.k = "none" -> Str("None")
      [] OTHER -> v

\* str.swapcase on the strings of the model
SwapCase(s) ==
    CASE s = "a" -> "A" [] s = "A" -> "a"
      [] s = "b" -> "B" [] s = "B" -> "b"
      [] s = "nan" -> "NAN" [] s = "NAN" -> "nan"
      [] s = "None" -> "nONE" [] s = "nONE" -> "None"
      [] OTHER -> s

\* The formatter argument: "None", or a callable: "swapcase" is
\* lambda v: str(v).swapcase(), "fixed" is lambda v: f"{v:.1f}" (it raises on
\* a string and on None: a ValueError or a TypeError, "FormatError" here)
Formatters == {"None", "swapcase", "fixed"}
FormatRaises(formatter, v) == formatter = "fixed" /\ v.k \in {"str", "none"}
Format(formatter, v) ==
    IF formatter = "swapcase" THEN Str(SwapCase(PyStr(v).s)) ELSE PyStr(v)

\* DataFrame.sort_values(axis, kind="mergesort"): stable, ascending, nulls last
sort_values(t, axis) ==
    LET col == t.cols[axis].vals
        key(i) == IF notnull(col[i]) THEN col[i] ELSE NaN
        sorted == StableSort([i \in 1..Len(col) |-> <<key(i), i>>])
    IN  TakeRows(t, [i \in 1..Len(col) |-> sorted[i][2]])

\* the univariate case: self.variables[axis] = None;
\* self.var_types[axis] = "categorical"; self.plot_data[axis] = ""
ScaleUnivariate(p, axis) ==
    IF axis \in DOMAIN p.variables THEN p
    ELSE [p EXCEPT
            !.variables = [r \in DOMAIN @ \cup {axis} |-> IF r = axis THEN "" ELSE @[r]],
            !.var_types = [r \in DOMAIN @ \cup {axis} |->
                             IF r = axis THEN "categorical" ELSE @[r]],
            !.plot_data.cols = [c \in DOMAIN @ \cup {axis} |->
                IF c = axis
                THEN Vec("object", [i \in 1..Len(p.plot_data.index) |-> Str("")])
                ELSE @[c]]]

\* a numeric axis column: the rows are sorted by it
ScaleSorted(p, axis) ==
    IF p.var_types[axis] = "numeric"
    THEN [p EXCEPT !.plot_data = sort_values(@, axis)]
    ELSE p

\* the conversion to strings: p is the plotter with _var_ordered[axis] set, co
\* the outcome of categorical_order(cat_data, order)
ScaleConverted(p, axis, formatter, co) ==
    LET cat_data == p.plot_data.cols[axis]
        \* Series.map on a category column maps the categories and keeps the
        \* dtype and the nulls; on any other column it maps every value
        mapcats == formatter # "None" /\ cat_data.c = "category"
        mapped == IF mapcats THEN cat_data.cats \o co.val ELSE cat_data.vals \o co.val
        raises == formatter # "None"
                  /\ \E i \in 1..Len(mapped) : FormatRaises(formatter, mapped[i])
        conv(v) == IF formatter = "None" THEN PyStr(v) ELSE Format(formatter, v)
        new_data == IF mapcats
                    THEN CatVec([i \in 1..Len(cat_data.vals) |->
                                    IF notnull(cat_data.vals[i]) THEN conv(cat_data.vals[i])
                                    ELSE cat_data.vals[i]],
                                [i \in 1..Len(cat_data.cats) |-> conv(cat_data.cats[i])])
                    ELSE Vec("object", [i \in 1..Len(cat_data.vals) |-> conv(cat_data.vals[i])])
        lv == var_levels(p)
    IN  IF co.err # "" THEN [err |-> co.err, plotter |-> p]
        ELSE IF raises THEN [err |-> "FormatError", plotter |-> p]
        ELSE [err |-> "",
              plotter |-> [p EXCEPT
                 !.var_levels = [r \in DOMAIN lv \cup {axis} |->
                                   IF r = axis
                                   THEN [i \in 1..Len(co.val) |-> conv(co.val[i])]
                                   ELSE lv[r]],
                 !.var_types[axis] = "categorical",
                 !.plot_data.cols[axis] = new_data]]

\* from "cat_data = self.plot_data[axis]" on
ScaleOrdered(p, axis, order, formatter) ==
    ScaleConverted(
        [p EXCEPT !.var_ordered[axis] = order[1] \/ p.plot_data.cols[axis].c = "category"],
        axis, formatter, categorical_order(p.plot_data.cols[axis], order))

\* scale_categorical(axis, order, formatter) -> [err, plotter]
scale_categorical(p, axis, order, formatter) ==
    ScaleOrdered(ScaleSorted(ScaleUnivariate(p, axis), axis), axis, order, formatter)

----------------------------------------------------------------------------
(* Construction: VectorPlotter(data, variables) in long mode *)

NoTable == [index |-> <<>>, cols |-> [c \in {} |-> Vec("object", <<>>)]]

\* the levels each semantic mapping gets when built with its defaults
\* (palette, sizes, markers, dashes, norm = None) and the given order
MappingLevels(t, var_types, role, order) ==
    IF role \notin DOMAIN t.cols
       \/ \A i \in 1..Len(t.cols[role].vals) : isna(t.cols[role].vals[i])
    THEN AbsentMap
    ELSE IF role # "style" /\ var_types[role] = "numeric"
    THEN [absent |-> FALSE,
          levels |-> npSort(SelectSeq(Unique(t.cols[role].vals), notnull))]
    ELSE [absent |-> FALSE, levels |-> categorical_order(t.cols[role], order).val]

\* the plotter after __init__: assign_variables, then map_hue(), map_size()
\* and map_style() with their defaults
NewPlotter(t) ==
    LET \* _assign_variables_longform keeps the roles with some non-null value
        bound == {r \in DOMAIN t.cols :
                    \E i \in 1..Len(t.cols[r].vals) : notnull(t.cols[r].vals[i])}
        var_types == [r \in bound |->
                        variable_type(t.cols[r],
                            IF r \in {"x", "y"} THEN "numeric" ELSE "categorical")]
    IN  [plot_data |-> t,
         variables |-> [r \in bound |-> r],
         var_types |-> var_types,
         var_levels |-> [r \in {} |-> <<>>],
         var_ordered |-> [x |-> FALSE, y |-> FALSE],
         maps |-> [r \in MapRoles |-> MappingLevels(t, var_types, r, NoOrder)],
         attached |-> FALSE,
         facets |-> NoGrid,
         converters |-> NoConverters,
         has_converters |-> FALSE,
         axes |-> [a \in {} |-> NewAxis],
         comp_data |-> [set |-> FALSE, table |-> NoTable]]

----------------------------------------------------------------------------
(* assign_variables(data, variables)                                       *)
(* data is [kind, order, cols, index, index_name, flat]: None; a DataFrame *)
(* with its columns (column key -> vector), row labels (whole numbers) and *)
(* the name of its index (None when unnamed); a dict of lists; or a flat   *)
(* list of scalars. The value bound to a role is [kind, key, vec, index]:  *)
(* None, a scalar (a string or a number), a list, or a Series with its     *)
(* index.                                                                  *)

NoCols == [key \in {} |-> Vec("object", <<>>)]

\* order is the order of the columns (of the keys of a dict)
DataNone == [kind |-> "None", order |-> <<>>, cols |-> NoCols, index |-> <<>>,
             index_name |-> None, flat |-> <<>>]
DataFrameOf(order, cols, index, index_name) ==
    [kind |-> "DataFrame", order |-> order, cols |-> cols, index |-> index,
     index_name |-> index_name, flat |-> <<>>]
DataDict(order, cols) ==
    [kind |-> "dict", order |-> order, cols |-> cols, index |-> <<>>,
     index_name |-> None, flat |-> <<>>]
DataList(vals) ==
    [kind |-> "list", order |-> <<>>, cols |-> NoCols, index |-> <<>>,
     index_name |-> None, flat |-> vals]

ValNone == [kind |-> "None", key |-> None, vec |-> ListOf(<<>>), index |-> <<>>]
ValScalar(k) == [kind |-> "scalar", key |-> k, vec |-> ListOf(<<>>), index |-> <<>>]
ValList(vals) == [kind |-> "list", key |-> None, vec |-> ListOf(vals), index |-> <<>>]
ValSeries(vec, index) == [kind |-> "Series", key |-> None, vec |-> vec, index |-> index]

\* isinstance(val, (str, bytes))
IsStrVal(val) == val.kind = "scalar" /\ val.key.k = "str"

\* "val in data": a list or a Series is not hashable, the TypeError is caught
InData(data, val) == val.kind = "scalar" /\ val.key \in DOMAIN data.cols

\* "val in index" without the test for a string
InIndex_any_scalar(data, val) ==
    val.kind = "scalar" /\ data.kind = "DataFrame" /\ val.key = data.index_name

\* "isinstance(val, (str, bytes)) and val in index": index is the frame of the
\* index levels of a DataFrame, its column the name of the index; an unnamed
\* index gives the column 0; {} for data without an index attribute
InIndex(data, val) ==
    IsStrVal(val) /\ data.kind = "DataFrame" /\ val.key = data.index_name

\* len(data)
DataLen(data) ==
    IF data.kind = "DataFrame" THEN Len(data.index)
    ELSE IF data.kind = "dict" THEN Cardinality(DOMAIN data.cols)
    ELSE Len(data.flat)

ErrInterpret == "ValueError: Could not interpret value"
ErrLength == "ValueError: Length of vectors must match length of data"
ErrArrays == "ValueError: All arrays must be of the same length"
ErrIndexLength == "ValueError: array length does not match index length"
ErrScalars == "ValueError: If using all scalar values, you must pass an index"
ErrWide == "ValueError: variables cannot be assigned with wide-form data"

\* the turn of the loop without the test of the length of a vector
Resolve_unchecked(data, val) ==
    IF InData(data, val)
    THEN [err |-> "",
          entry |-> IF data.kind = "DataFrame"
                    THEN ValSeries(data.cols[val.key], data.index)
                    ELSE ValList(data.cols[val.key].vals),
          name |-> val.key]
    ELSE IF InIndex(data, val)
    THEN [err |-> "",
          entry |-> ValSeries(Vec("float", [i \in 1..Len(data.index) |-> Num(data.index[i])]),
                              data.index),
          name |-> val.key]
    ELSE IF IsStrVal(val)
    THEN [err |-> ErrInterpret, entry |-> ValNone, name |-> None]
    ELSE [err |-> "", entry |-> val, name |-> None]

\* one turn of the loop over kwargs in _assign_variables_longform:
\*   -> [err, entry, name], entry what is stored in plot_data[key] and name
\* what is stored in variables[key]
Resolve(data, val) ==
    IF InData(data, val)
    THEN [err |-> "",
          entry |-> IF data.kind = "DataFrame"
                    THEN ValSeries(data.cols[val.key], data.index)
                    ELSE ValList(data.cols[val.key].vals),
          name |-> val.key]
    ELSE IF InIndex(data, val)
    THEN [err |-> "",
          entry |-> ValSeries(Vec("float", [i \in 1..Len(data.index) |-> Num(data.index[i])]),
                              data.index),
          name |-> val.key]
    ELSE IF IsStrVal(val)
    THEN [err |-> ErrInterpret, entry |-> ValNone, name |-> None]
    ELSE IF /\ data.kind = "DataFrame" /\ val.kind # "Series"
            /\ val.kind = "list" /\ DataLen(data) # Len(val.vec.vals)
    THEN [err |-> ErrLength, entry |-> ValNone, name |-> None]
    ELSE [err |-> "", entry |-> val, name |-> None]

NoEntries == [r \in {} |-> ValNone]
NoNamesOf == [r \in {} |-> None]

\* the loop over kwargs, a sequence of <<key, val>> in the caller's order
RECURSIVE AssignLoop(_, _, _)
AssignStep(data, rest, acc, key, r) ==
    IF r.err # "" THEN [acc EXCEPT !.err = r.err]
    ELSE AssignLoop(data, rest,
             [err |-> "",
              plot_data |-> (key :> r.entry) @@ acc.plot_data,
              variables |-> (key :> r.name) @@ acc.variables])

AssignLoop(data, kwargs, acc) ==
    IF kwargs = <<>> THEN acc
    ELSE AssignStep(data, Tail(kwargs), acc, kwargs[1][1], Resolve(data, kwargs[1][2]))

\* pd.DataFrame(dict of Series, lists and scalars): the Series are aligned on
\* the union of their indexes, the lists must have one length, that of the
\* index when a Series is present, and the scalars are repeated
SeriesKeys(e) == {r \in DOMAIN e : e[r].kind = "Series"}
RawKeys(e) == {r \in DOMAIN e : e[r].kind = "list"}
RawLengths(e) == {Len(e[r].vec.vals) : r \in RawKeys(e)}

\* the whole numbers of S in increasing order
SortedSeq(S) ==
    CHOOSE q \in [1..Cardinality(S) -> S] :
        \A i, j \in 1..Cardinality(S) : i < j => q[i] < q[j]

\* union_indexes: the common index of the Series, or the sorted union
UnionIndex(e) ==
    IF Cardinality({e[r].index : r \in SeriesKeys(e)}) = 1
    THEN CHOOSE ix \in {e[r].index : r \in SeriesKeys(e)} : TRUE
    ELSE SortedSeq(UNION {Range(e[r].index) : r \in SeriesKeys(e)})

FrameIndex(e) ==
    IF SeriesKeys(e) # {} THEN UnionIndex(e)
    ELSE [i \in 1..(CHOOSE n \in RawLengths(e) : TRUE) |-> i - 1]

\* the column a list becomes: numbers (None read as NaN) give a numeric
\* column, anything else an object column
ListToColumn(vals) ==
    IF \A i \in 1..Len(vals) : vals[i].k = "none" THEN Vec("object", vals)
    ELSE IF \A i \in 1..Len(vals) : vals[i].k \in {"num", "nan", "none"}
    THEN Vec("float", [i \in 1..Len(vals) |-> IF vals[i].k = "none" THEN NaN ELSE vals[i]])
    ELSE Vec("object", vals)

\* a Series reindexed to index: NaN where it has no such label
SeriesColumn(entry, index) ==
    [c |-> entry.vec.c,
     vals |-> [i \in 1..Len(index) |->
                 IF index[i] \in Range(entry.index)
                 THEN entry.vec.vals[IndexIn(entry.index, index[i])] ELSE NaN],
     cats |-> entry.vec.cats]

ScalarColumn(k, n) ==
    Vec(IF k.k \in {"num", "nan"} THEN "float" ELSE "object", [i \in 1..n |-> k])

FrameColumn(entry, index) ==
    IF entry.kind = "Series" THEN SeriesColumn(entry, index)
    ELSE IF entry.kind = "list" THEN ListToColumn(entry.vec.vals)
    ELSE ScalarColumn(entry.key, Len(index))

FrameOf(e, index) ==
    [index |-> index, cols |-> [r \in DOMAIN e |-> FrameColumn(e[r], index)]]

MakeFrame(e) ==
    IF DOMAIN e = {} THEN Ret([index |-> <<>>, cols |-> [c \in {} |-> Vec("object", <<>>)]])
    ELSE IF SeriesKeys(e) = {} /\ RawKeys(e) = {} THEN Raise(ErrScalars)
    ELSE IF Cardinality(RawLengths(e)) > 1 THEN Raise(ErrArrays)
    ELSE IF /\ SeriesKeys(e) # {} /\ RawKeys(e) # {}
            /\ RawLengths(e) # {Len(UnionIndex(e))}
    THEN Raise(ErrIndexLength)
    ELSE Ret(FrameOf(e, FrameIndex(e)))

\* plot_data[var].notnull().any()
AnyNotNull(col) == \E i \in 1..Len(col.vals) : notnull(col.vals[i])

\* _assign_variables_longform after the loop: the tidy table is built and
\* variables is reduced to the roles whose column has a non-null value
LongformFramed(acc, frame) ==
    IF acc.err # "" THEN [err |-> acc.err, plot_data |-> NoTable, variables |-> NoNamesOf]
    ELSE IF frame.err # ""
    THEN [err |-> frame.err, plot_data |-> NoTable, variables |-> NoNamesOf]
    ELSE [err |-> "", plot_data |-> frame.val,
          variables |-> [r \in {v \in DOMAIN acc.variables : AnyNotNull(frame.val.cols[v])}
                            |-> acc.variables[r]]]

LongformLooped(acc) ==
    LongformFramed(acc, IF acc.err # "" THEN Raise(acc.err) ELSE MakeFrame(acc.plot_data))

\* _assign_variables_longform(data, **kwargs) -> [err, plot_data, variables]
assign_variables_longform(data, kwargs) ==
    LongformLooped(AssignLoop(data, kwargs,
        [err |-> "", plot_data |-> NoEntries, variables |-> NoNamesOf]))

\* variables.get(key, None)
KwGet(kwargs, key) ==
    IF \E i \in 1..Len(kwargs) : kwargs[i][1] = key
    THEN kwargs[CHOOSE i \in 1..Len(kwargs) : kwargs[i][1] = key][2]
    ELSE ValNone

\* no variable counted as assigned
Assigned_nothing(kwargs) == <<>>

\* [k for k, v in kwargs.items() if v is not None]
Assigned(kwargs) == SelectSeq(kwargs, LAMBDA kv : kv[2].kind # "None")

RangeIndex(n) == [i \in 1..n |-> i - 1]

\* the flat branch: pd.Series(data), x its index and y its values
WideFlat(data) ==
    [err |-> "",
     plot_data |-> [index |-> RangeIndex(Len(data.flat)),
                    cols |-> [v \in {"x", "y"} |->
                        IF v = "x"
                        THEN Vec("float", [i \in 1..Len(data.flat) |-> Num(i - 1)])
                        ELSE ListToColumn(data.flat)]],
     variables |-> [v \in {"x", "y"} |-> None]]

\* wide_data: the DataFrame itself, or the DataFrame of the dict of Series
WideData(data) ==
    IF data.kind = "DataFrame" THEN [index |-> data.index, cols |-> data.cols]
    ELSE MakeFrame([k \in DOMAIN data.cols |->
                       ValSeries(ListToColumn(data.cols[k].vals),
                                 RangeIndex(Len(data.cols[k].vals)))]).val

\* every column of wide_data kept, whatever its type
NumericCols_all(data, wide_data) == data.order

\* the numeric columns of wide_data in column order
NumericCols(data, wide_data) ==
    SelectSeq(data.order, LAMBDA k : variable_type(wide_data.cols[k], "numeric") = "numeric")

\* wide_data.melt(id_vars="@index"): one row per numeric column and row
\* label, column after column; row j of the result is row MeltRow of column
\* MeltCol, for n row labels
MeltCol(n, j) == ((j - 1) \div n) + 1
MeltRow(n, j) == ((j - 1) % n) + 1

Melted(wide_data, numeric_cols, index_name) ==
    [err |-> "",
     plot_data |->
        [index |-> RangeIndex(Len(numeric_cols) * Len(wide_data.index)),
         cols |-> [v \in {"x", "y", "hue", "style"} |->
            IF v = "x"
            THEN Vec("float", [j \in 1..(Len(numeric_cols) * Len(wide_data.index)) |->
                     Num(wide_data.index[MeltRow(Len(wide_data.index), j)])])
            ELSE IF v = "y"
            THEN Vec(IF \A i \in 1..Len(numeric_cols) :
                            wide_data.cols[numeric_cols[i]].c = "float"
                     THEN "float" ELSE "object",
                     [j \in 1..(Len(numeric_cols) * Len(wide_data.index)) |->
                        wide_data.cols[numeric_cols[MeltCol(Len(wide_data.index), j)]]
                            .vals[MeltRow(Len(wide_data.index), j)]])
            ELSE ListToColumn([j \in 1..(Len(numeric_cols) * Len(wide_data.index)) |->
                        numeric_cols[MeltCol(Len(wide_data.index), j)]])]],
     variables |-> [v \in {"x", "y", "hue", "style"} |->
                        IF v = "x" THEN index_name ELSE None]]

WideMelted(data, wide_data) ==
    Melted(wide_data, NumericCols(data, wide_data), data.index_name)

\* _assign_variables_wideform(data, **kwargs) -> [err, plot_data, variables]
assign_variables_wideform(data, kwargs) ==
    IF Assigned(kwargs) # <<>>
    THEN [err |-> ErrWide, plot_data |-> NoTable, variables |-> NoNamesOf]
    ELSE IF data.kind = "None" \/ DataLen(data) = 0
    THEN [err |-> "", plot_data |-> NoTable, variables |-> NoNamesOf]
    ELSE IF data.kind = "list" THEN WideFlat(data)
    ELSE WideMelted(data, WideData(data))

\* assign_variables after plot_data and variables are returned: r is the
\* outcome of the long-form or wide-form assignment
Assigned_vars(r, input_format) ==
    IF r.err # ""
    THEN [err |-> r.err, input_format |-> input_format, plot_data |-> NoTable,
          variables |-> NoNamesOf, var_types |-> [v \in {} |-> ""]]
    ELSE [err |-> "", input_format |-> input_format, plot_data |-> r.plot_data,
          variables |-> r.variables,
          var_types |-> [v \in DOMAIN r.variables |->
                            variable_type(r.plot_data.cols[v],
                                IF v \in {"x", "y"} THEN "numeric" ELSE "categorical")]]

\* assign_variables(data, variables)
\*   -> [err, input_format, plot_data, variables, var_types]
assign_variables(data, variables) ==
    IF KwGet(variables, "x").kind = "None" /\ KwGet(variables, "y").kind = "None"
    THEN Assigned_vars(assign_variables_wideform(data, variables), "wide")
    ELSE Assigned_vars(assign_variables_longform(data, variables), "long")

----------------------------------------------------------------------------
NoPlotter == [none |-> TRUE]

----------------------------------------------------------------------------
(* The constructors of the semantic mappings and their lookups. A mapping  *)
(* object is [absent, levels, lookup_table, map_type, normed, norm]: absent *)
(* when the constructor left levels and lookup_table at the class default  *)
(* None, normed when self.norm is not None, norm what self.norm holds. A   *)
(* norm is [kind, scaled, log, vmin, vmax]: None, a tuple (vmin, vmax), or *)
(* a Normalize object, scaled once its limits are set; log tells whether the *)
(* object is a LogNorm. A palette is None, a dict, a list or the name of a *)
(* known palette.                                                          *)

NormNone ==
    [kind |-> "None", scaled |-> FALSE, log |-> FALSE, vmin |-> 0, vmax |-> 0]
NormTuple(lo, hi) ==
    [kind |-> "tuple", scaled |-> FALSE, log |-> FALSE, vmin |-> lo, vmax |-> hi]
NormObject ==
    [kind |-> "Normalize", scaled |-> FALSE, log |-> FALSE, vmin |-> 0, vmax |-> 0]
Normalize(lo, hi) ==
    [kind |-> "Normalize", scaled |-> TRUE, log |-> FALSE, vmin |-> lo, vmax |-> hi]
LogNorm(lo, hi) ==
    [kind |-> "Normalize", scaled |-> TRUE, log |-> TRUE, vmin |-> lo, vmax |-> hi]

\* the Normalize() a numeric mapping makes and scales to its data: the limits
\* are the smallest and the largest level
AutoNorm(levels) ==
    IF levels = <<>> THEN NormObject
    ELSE Normalize(levels[1].n, levels[Len(levels)].n)

UnsetMapping(map_type) ==
    [absent |-> TRUE, levels |-> <<>>, lookup_table |-> EmptyDict,
     map_type |-> map_type, normed |-> FALSE, norm |-> NormNone]

\* the mapping a constructor stores from the outcome lv of its
\* categorical_mapping or numeric_mapping call
StoredMapping(lv, map_type, normed, warned) ==
    IF lv.err # "" THEN [err |-> lv.err, warned |-> warned, map |-> UnsetMapping("None")]
    ELSE [err |-> "", warned |-> warned,
          map |-> [absent |-> FALSE, levels |-> lv.val.levels,
                   lookup_table |-> lv.val.lookup_table,
                   map_type |-> map_type, normed |-> normed,
                   norm |-> IF normed THEN AutoNorm(lv.val.levels) ELSE NormNone]]

\* the stored mapping holding the norm that numeric_mapping returned
WithNorm(stored, norm) ==
    IF stored.err # "" THEN stored ELSE [stored EXCEPT !.map.norm = norm]

\* plot_data.get(role, pd.Series(dtype=float))
RoleData(t, role) == IF role \in DOMAIN t.cols THEN t.cols[role] ELSE Vec("float", <<>>)

\* data.isna().all(), the negation of data.notna().any()
AllNull(data) == \A i \in 1..Len(data.vals) : isna(data.vals[i])

\* the names in QUAL_PALETTES among the palette names used here
QualPalettes == {"deep"}

\* a colour of a continuous colormap at the position num / den of [0, 1]
CmapColor(pal, num, den) == [pal |-> pal, num |-> num, den |-> den]

\* the RGBA (0, 0, 0, 0)
Transparent == [pal |-> "transparent", i |-> 0]

\* HueMapping.infer_map_type with the test of norm after the tests of the
\* palette
HueInferMapType_palette_first(palette, norm, input_format, var_type) ==
    IF palette.kind = "str" /\ palette.name \in QualPalettes THEN "categorical"
    ELSE IF palette.kind \in {"dict", "list"} THEN "categorical"
    ELSE IF norm.kind # "None" THEN "numeric"
    ELSE IF input_format = "wide" THEN "categorical"
    ELSE var_type

\* HueMapping.infer_map_type(palette, norm, input_format, var_type)
HueInferMapType(palette, norm, input_format, var_type) ==
    IF palette.kind = "str" /\ palette.name \in QualPalettes THEN "categorical"
    ELSE IF norm.kind # "None" THEN "numeric"
    ELSE IF palette.kind \in {"dict", "list"} THEN "categorical"
    ELSE IF input_format = "wide" THEN "categorical"
    ELSE var_type

\* Normalize()(v) once scaled to the sorted levels: the position of v between
\* the smallest and the largest level, 0 when the two are equal
Normed(levels, v) ==
    IF levels[Len(levels)].n = levels[1].n THEN <<0, 1>>
    ELSE <<v.n - levels[1].n, levels[Len(levels)].n - levels[1].n>>

\* list(np.sort(remove_na(data.unique())))
SortedLevels(data) == npSort(SelectSeq(Unique(data.vals), notnull))

\* norm(v) for a scaled Normalize: the position of v between vmin and vmax,
\* 0 when the two are equal
NormCall(norm, v) ==
    IF norm.vmax = norm.vmin THEN <<0, 1>>
    ELSE <<v.n - norm.vmin, norm.vmax - norm.vmin>>

\* a LogNorm masks the values that have no logarithm
IsMasked(norm, v) == norm.log /\ v.n <= 0

\* the colour at the position of log(v) between log(vmin) and log(vmax)
LogColor(pal, norm, v) == [pal |-> pal, log |-> v.n, vmin |-> norm.vmin, vmax |-> norm.vmax]

\* cmap(norm(v)) for a number v and a scaled norm: the colormap gives the
\* colour (0, 0, 0, 0) for a masked value and for NaN
CmapNormed(cmap, norm, v) ==
    IF IsMasked(norm, v) THEN Transparent
    ELSE IF norm.log THEN LogColor(cmap, norm, v)
    ELSE CmapColor(cmap, NormCall(norm, v)[1], NormCall(norm, v)[2])

\* the colours cmap(norm(levels)) of HueMapping.numeric_mapping
HueNumericColors(levels, cmap, norm) ==
    [i \in 1..Len(levels) |-> CmapNormed(cmap, norm, levels[i])]

\* the norm numeric_mapping returns when the palette is no dict: Normalize()
\* for None and Normalize(*norm) for a tuple, scaled to the data when its
\* limits are not set
HueScaledNorm(levels, norm) ==
    IF norm.kind = "tuple" THEN Normalize(norm.vmin, norm.vmax)
    ELSE IF norm.kind = "Normalize" /\ norm.scaled THEN norm
    ELSE AutoNorm(levels)

\* the colormap of a palette that is no dict: "ch:" for None, the named
\* colormap, or the ListedColormap of a list
HueCmap(palette) ==
    IF palette.kind = "None" THEN "ch:"
    ELSE IF palette.kind = "list" THEN "listed"
    ELSE palette.name

\* sorted(palette) for a dict palette whose keys are all strings or all
\* numbers; KeyStrings are the strings used as keys, in ascending order
KeyStrings == <<"", "a", "b", "z">>
KeyRank(k) ==
    IF k.k = "str" THEN CHOOSE i \in 1..Len(KeyStrings) : KeyStrings[i] = k.s ELSE k.n
SortedKeys(palette) ==
    CHOOSE l \in [1..Cardinality(DOMAIN palette.dict) -> DOMAIN palette.dict] :
        /\ Range(l) = DOMAIN palette.dict
        /\ \A i \in 1..(Len(l) - 1) : KeyRank(l[i]) < KeyRank(l[i + 1])

\* HueMapping.numeric_mapping(data, palette, norm) -> [levels, lookup_table,
\* norm]: a dict palette is its own lookup table and leaves norm as it was
\* passed; any other palette is turned into a colormap
HueNumericMapping(data, palette, norm) ==
    IF palette.kind = "dict"
    THEN Ret([levels |-> SortedKeys(palette), lookup_table |-> palette.dict,
              norm |-> norm])
    ELSE Ret([levels |-> SortedLevels(data),
              lookup_table |-> DictZip(SortedLevels(data),
                  HueNumericColors(SortedLevels(data), HueCmap(palette),
                                   HueScaledNorm(SortedLevels(data), norm))),
              norm |-> HueScaledNorm(SortedLevels(data), norm)])

\* pd.to_numeric(data) raises ValueError for a string that is no number and
\* turns a date into its whole number of nanoseconds
ToNumericRaises(data) == \E i \in 1..Len(data.vals) : data.vals[i].k = "str"
ToNumeric(data) ==
    Vec("float", [i \in 1..Len(data.vals) |->
                    IF data.vals[i].k = "date" THEN Num(data.vals[i].n)
                    ELSE data.vals[i]])

\* HueMapping.__init__ past the null test, map_type inferred
HueMappingTyped(data, palette, order, norm, map_type) ==
    IF map_type = "numeric"
    THEN IF ToNumericRaises(data)
         THEN [err |-> "ValueError", warned |-> FALSE, map |-> UnsetMapping("None")]
         ELSE WithNorm(StoredMapping(HueNumericMapping(ToNumeric(data), palette, norm),
                                     map_type, TRUE, FALSE),
                       HueNumericMapping(ToNumeric(data), palette, norm).val.norm)
    ELSE IF map_type = "categorical"
    THEN StoredMapping(HueCategoricalMapping(data, palette, order), map_type, FALSE, FALSE)
    ELSE StoredMapping(HueCategoricalMapping(ListOf(data.vals), palette, order),
                       map_type, FALSE, FALSE)

\* HueMapping(plotter, palette, order, norm) on a long-form plotter
\* -> [err, warned, map]; warned tells whether warnings.warn was called
HueMappingInit(p, palette, order, norm) ==
    IF AllNull(RoleData(p.plot_data, "hue"))
    THEN [err |-> "", warned |-> palette.kind # "None", map |-> UnsetMapping("None")]
    ELSE HueMappingTyped(RoleData(p.plot_data, "hue"), palette, order, norm,
             HueInferMapType(palette, norm, "long", p.var_types["hue"]))

\* SizeMapping.infer_map_type(norm=None, sizes, var_type)
SizeInferMapType(sizes, var_type) ==
    IF sizes.kind \in {"dict", "list"} THEN "categorical" ELSE var_type

\* lo + norm(level) * (hi - lo) for the whole numbers lo, hi
SizeScaled(lo, hi, nd) == Size(lo * nd[2] + nd[1] * (hi - lo), nd[2])

\* the sizes of SizeMapping.numeric_mapping over the sorted levels
SizeNumericSizes(levels, range) ==
    [i \in 1..Len(levels) |->
        SizeScaled(range[1].num, range[2].num, Normed(levels, levels[i]))]

\* SizeMapping.numeric_mapping(data, sizes, norm=None) for sizes that are no
\* dict (a dict makes the mapping categorical when norm is None)
SizeNumericMapping(data, sizes) ==
    IF sizes.kind = "tuple" /\ Len(sizes.list) # 2 THEN Raise("ValueError")
    ELSE IF sizes.kind \notin {"tuple", "None"} THEN Raise("ValueError")
    ELSE Ret([levels |-> SortedLevels(data),
              lookup_table |-> DictZip(SortedLevels(data),
                  SizeNumericSizes(SortedLevels(data),
                      IF sizes.kind = "tuple" THEN sizes.list ELSE default_size_range))])

\* SizeMapping.__init__ inside "if data.notna().any()", map_type inferred
SizeMappingTyped(data, sizes, order, map_type) ==
    IF map_type = "numeric"
    THEN StoredMapping(SizeNumericMapping(data, sizes), map_type, TRUE, FALSE)
    ELSE IF map_type = "categorical"
    THEN StoredMapping(SizeCategoricalMapping(data, sizes, order), map_type, FALSE, FALSE)
    ELSE StoredMapping(SizeCategoricalMapping(ListOf(data.vals), sizes, order),
                       map_type, FALSE, FALSE)

\* SizeMapping(plotter, sizes, order) -> [err, warned, map]
SizeMappingInit(p, sizes, order) ==
    IF AllNull(RoleData(p.plot_data, "size"))
    THEN [err |-> "", warned |-> FALSE, map |-> UnsetMapping("None")]
    ELSE SizeMappingTyped(RoleData(p.plot_data, "size"), sizes, order,
                          SizeInferMapType(sizes, p.var_types["size"]))

\* a marker that draws as line art; every other marker is filled
LineArt(i) == Color("lineart", i)
IsFilled(m) == m.pal # "lineart"

\* a style attribute a level does not have
NoAttr == Color("", 0)

\* "Filled and line art markers cannot be mixed"
MixedMarkers(markers) ==
    /\ \E k \in DOMAIN markers : IsFilled(markers[k])
    /\ \E k \in DOMAIN markers : ~IsFilled(markers[k])

\* the lookup_table of StyleMapping.__init__: for every level the marker and
\* the dashes, each only when its table is not empty
StyleTable(levels, markers, dashes) ==
    [key \in Range(levels) |->
        [marker |-> IF markers # EmptyDict THEN markers[key] ELSE NoAttr,
         dashes |-> IF dashes # EmptyDict THEN dashes[key] ELSE NoAttr]]

\* StyleMapping.__init__ after the two _map_attributes calls returned
StyleMapped(levels, markers, dashes) ==
    IF markers.err # "" THEN Raise(markers.err)
    ELSE IF dashes.err # "" THEN Raise(dashes.err)
    ELSE IF MixedMarkers(markers.val) THEN Raise("ValueError")
    ELSE Ret([levels |-> levels,
              lookup_table |-> StyleTable(levels, markers.val, dashes.val)])

\* StyleMapping.__init__ after levels = categorical_order(data, order)
StyleLevelled(lv, markers, dashes) ==
    IF lv.err # "" THEN Raise(lv.err)
    ELSE StyleMapped(lv.val,
             map_attributes(markers, lv.val,
                            unique_defaults("markers", Len(lv.val)), "markers"),
             map_attributes(dashes, lv.val,
                            unique_defaults("dashes", Len(lv.val)), "dashes"))

\* StyleMapping(plotter, markers, dashes, order) -> [err, warned, map]
StyleMappingInit(p, markers, dashes, order) ==
    IF AllNull(RoleData(p.plot_data, "style"))
    THEN [err |-> "", warned |-> FALSE, map |-> UnsetMapping("categorical")]
    ELSE StoredMapping(
             StyleLevelled(categorical_order(RoleData(p.plot_data, "style"), order),
                           markers, dashes),
             "categorical", FALSE, FALSE)

\* a lookup that raises KeyError for every key that is not in the table
HueLookup_no_sentinel(map, key) ==
    IF map.absent THEN Raise("TypeError")
    ELSE IF \E k \in DOMAIN map.lookup_table : PyEq(k, key)
    THEN Ret(map.lookup_table[key])
    ELSE Raise("KeyError")

\* HueMapping._lookup_single(key): subscripting the None lookup_table of an
\* absent mapping raises TypeError; a key that is not in the table gives
\* (0, 0, 0, 0) without a norm. With a norm, self.norm(key) raises TypeError
\* when norm is still a tuple or key is a string: np.isnan(key) then gives
\* (0, 0, 0, 0) for NaN, and the TypeError is raised for any other key (from
\* np.isnan itself for a string). A Normalize whose limits are not set
\* scales itself to the key and returns 0; NaN is normalized to NaN, a
\* masked result is replaced by NaN, and the colormap gives its "bad" colour
\* (0, 0, 0, 0) for NaN. A key without a float value (None, a date) makes
\* the norm raise TypeError.
HueLookup(map, key) ==
    IF map.absent THEN Raise("TypeError")
    ELSE IF \E k \in DOMAIN map.lookup_table : PyEq(k, key)
    THEN Ret(map.lookup_table[key])
    ELSE IF ~map.normed THEN Ret(Transparent)
    ELSE IF key.k = "nan" THEN Ret(Transparent)
    ELSE IF map.norm.kind = "tuple" \/ key.k = "str" THEN Raise("TypeError")
    ELSE IF key.k \notin {"num"} THEN Raise("TypeError")
    ELSE IF ~map.norm.scaled THEN Ret(CmapColor("cmap", 0, 1))
    ELSE Ret(CmapNormed("cmap", map.norm, key))

\* norm(key) with norm.clip = True: clipped into [0, 1]
NormedClipped(levels, v) ==
    IF Normed(levels, v)[1] < 0 THEN <<0, 1>>
    ELSE IF Normed(levels, v)[1] > Normed(levels, v)[2] THEN <<1, 1>>
    ELSE Normed(levels, v)

\* SizeMapping._lookup_single(key): a key that is not in the table is passed
\* to self.norm, which is None in a categorical mapping
SizeLookup(map, key, range) ==
    IF map.absent THEN Raise("TypeError")
    ELSE IF \E k \in DOMAIN map.lookup_table : PyEq(k, key)
    THEN Ret(map.lookup_table[key])
    ELSE IF ~map.normed THEN Raise("TypeError")
    ELSE IF key.k \in {"str", "date"} THEN Raise("TypeError")
    ELSE IF key.k = "nan" THEN Ret(NaN)
    ELSE Ret(SizeScaled(range[1].num, range[2].num, NormedClipped(map.levels, key)))

\* StyleMapping._lookup_single(key, attr=None)
StyleLookup(map, key) ==
    IF map.absent THEN Raise("TypeError")
    ELSE IF \E k \in DOMAIN map.lookup_table : PyEq(k, key)
    THEN Ret(map.lookup_table[key])
    ELSE Raise("KeyError")


----------------------------------------------------------------------------
(* categorical_order as a pure function: the first call on a drawn vector  *)
(* and order, the second on the list the first returned.                   *)

OrderValues == {Num(1), Num(2), Str("a"), Str("b"), NaN, None}

\* category metadata: a duplicate-free sequence of non-null values
Categories ==
    {c \in SeqsUpTo({v \in OrderValues : notnull(v)}, 2) : c # <<>> /\ NoDup(c)}

OrderVectors ==
    {Vec(c, vals) : c \in {"list", "object"}, vals \in SeqsUpTo(OrderValues, MaxLen)}
    \cup {Vec("float", vals) : vals \in SeqsUpTo({Num(1), Num(2), NaN}, MaxLen)}
    \cup UNION {{CatVec(vals, cats) : vals \in SeqsUpTo(Range(cats) \cup {NaN}, MaxLen)}
                : cats \in Categories}

\* with an explicit order the vector is not consulted: two vectors suffice
OrderInputs ==
    {[vector |-> v, order |-> NoOrder] : v \in OrderVectors}
    \cup {[vector |-> v, order |-> Explicit(o)] :
            v \in {Vec("object", <<Str("a")>>),
                   CatVec(<<Str("a")>>, <<Str("b"), Str("a")>>)},
            o \in SeqsUpTo(OrderValues, MaxLen)}

InitOrder ==
    /\ pc = "order_init"
    /\ args \in OrderInputs
    /\ out = [first |-> Ret(<<>>), second |-> Ret(<<>>)]
    /\ plotter = NoPlotter

\* order = categorical_order(vector, order)
OrderCall ==
    /\ pc = "order_init"
    /\ pc' = "order_1"
    /\ out' = [out EXCEPT !.first = categorical_order(args.vector, args.order)]
    /\ UNCHANGED <<args, plotter>>

\* categorical_order(order): the returned list as the vector, no explicit order
OrderAgain ==
    /\ pc = "order_1"
    /\ out.first.err = ""
    /\ pc' = "order_2"
    /\ out' = [out EXCEPT !.second = categorical_order(ListOf(out.first.val), NoOrder)]
    /\ UNCHANGED <<args, plotter>>

NextOrder == OrderCall \/ OrderAgain

SpecOrder == InitOrder /\ [][NextOrder]_vars

MixesNoneAndNumbers(vector) ==
    \E i, j \in 1..Len(vector.vals) :
        vector.vals[i].k = "none" /\ vector.vals[j].k = "num"

C6_NoNullInResult ==
    pc = "order_1" /\ out.first.err = "" =>
        \A i \in 1..Len(out.first.val) : notnull(out.first.val[i])

----------------------------------------------------------------------------
(* Building one semantic mapping from a column and a mapping specification *)

MapValues == {Num(0), Num(1), Str(""), Str("a"), NaN}

MapColumns == {Vec("object", vals) : vals \in SeqsUpTo(MapValues, MaxLen) \ {<<>>}}

\* the attribute value a dict or list specification gives: its own entry
UserAttr(i) == Color("user", i)

MapSpecs ==
    {SpecDict([key \in K |-> UserAttr(1)]) : K \in SUBSET {v \in MapValues : notnull(v)}}
    \cup {SpecList([i \in 1..m |-> UserAttr(i)]) : m \in 0..2}
    \cup {SpecNone, SpecTrue, SpecFalse, SpecOther, SpecName("husl"),
          SpecTuple(<<Size(1, 1), Size(3, 1)>>)}

InitMap ==
    /\ pc = "map_init"
    /\ args \in [data : MapColumns, spec : MapSpecs, channel : {""}]
    /\ out = Ret(<<>>)
    /\ plotter = NoPlotter

\* HueMapping.categorical_mapping(data, palette, order=None)
MapHueCategorical ==
    /\ pc = "map_init"
    /\ args.spec.kind \in {"None", "dict", "list", "str"}
    /\ pc' = "map_done"
    /\ args' = [args EXCEPT !.channel = "hue"]
    /\ out' = HueCategoricalMapping(args.data, args.spec, NoOrder)
    /\ UNCHANGED plotter

\* SizeMapping.categorical_mapping(data, sizes, order=None)
MapSizeCategorical ==
    /\ pc = "map_init"
    /\ pc' = "map_done"
    /\ args' = [args EXCEPT !.channel = "size"]
    /\ out' = SizeCategoricalMapping(args.data, args.spec, NoOrder)
    /\ UNCHANGED plotter

\* StyleMapping.__init__: levels = categorical_order(data, order), then
\* _map_attributes for the markers or the dashes argument
MapStyleAttribute ==
    /\ pc = "map_init"
    /\ \E attr \in {"markers", "dashes"} :
        LET lv == categorical_order(args.data, NoOrder)
            table == map_attributes(args.spec, lv.val,
                                    unique_defaults(attr, Len(lv.val)), attr)
        IN  /\ args' = [args EXCEPT !.channel = attr]
            /\ out' = IF lv.err # "" THEN lv
                      ELSE IF table.err # "" THEN table
                      ELSE Ret([levels |-> lv.val, lookup_table |-> table.val])
    /\ pc' = "map_done"
    /\ UNCHANGED plotter

NextMap == MapHueCategorical \/ MapSizeCategorical \/ MapStyleAttribute

SpecMap == InitMap /\ [][NextMap]_vars

\* the levels of the column of the last mapping call
MapLevels == categorical_order(args.data, NoOrder).val

\* C1 (as claimed): with a dict specification, building the hue or size
\* categorical mapping or a style attribute raises whenever some level of the
\* column is not a key of the dict, whatever the missing level is.
C1_DictMissingLevelRaises ==
    pc = "map_done" /\ args.spec.kind = "dict"
        /\ Range(MapLevels) \ DOMAIN args.spec.dict # {}
    => out.err = "ValueError"

\* the sizes a and b as rationals: a < b, and the step from a down to b
SizeLess(a, b) == a.num * b.den < b.num * a.den
SizeStep(a, b) == Size(a.num * b.den - b.num * a.den, a.den * b.den)
SizeSame(a, b) == a.num * b.den = b.num * a.den

\* the (lo, hi) range a size mapping without a dict or a list draws from
SizeRange == IF args.spec.kind = "tuple" THEN args.spec.list ELSE default_size_range

\* the sizes of the last mapping call in level order
SizesInLevelOrder ==
    [i \in 1..Len(out.val.levels) |-> out.val.lookup_table[out.val.levels[i]]]

\* a size categorical mapping was built from sizes=None or a (lo, hi) tuple
\* over at least one level
SizeRampBuilt ==
    /\ pc = "map_done" /\ args.channel = "size" /\ out.err = ""
    /\ args.spec.kind \in {"None", "tuple"}
    /\ Len(out.val.levels) >= 1

\* C12: a size categorical mapping built from sizes=None or a tuple (lo, hi)
\* with lo < hi gives, for every number n >= 1 of levels, the largest size hi
\* to the first level, evenly spaced sizes, strictly descending in level
\* order.
C12_FirstLevelLargest ==
    SizeRampBuilt =>
        LET sz == SizesInLevelOrder
        IN  /\ SizeSame(sz[1], SizeRange[2])
            /\ \A i \in 1..(Len(sz) - 1) : SizeLess(sz[i + 1], sz[i])
            /\ \A i \in 1..(Len(sz) - 2) :
                    SizeSame(SizeStep(sz[i], sz[i + 1]), SizeStep(sz[i + 1], sz[i + 2]))

----------------------------------------------------------------------------
(* Grouped iteration: a plotter over a tidy table with the roles x, hue,   *)
(* col and (in half of the tables) row. A behaviour is one drawing, in the *)
(* order of the plotting functions: the plotter is built, map_hue may      *)
(* rebuild the hue mapping with an order, _attach may bind a FacetGrid,    *)
(* and iter_data is called and consumed.                                   *)

MaxRows == 2

VarTypes == {"numeric", "categorical", "datetime"}

\* The first row may hold NaN in x and in hue: x is 1.0 or NaN in the first
\* row and 1.0 below it, hue is "a" or NaN in the first row and "a" or "b"
\* below it; col is "c" in the first row and "c" or "d" below it; row, when
\* bound, is "r" in the first row and "s" below it
IterTables ==
    {[index |-> [i \in 1..MaxRows |-> i - 1],
      cols |-> [c \in {"x", "hue", "col"} \cup withrow |->
                  CASE c = "x" -> Vec("float", [i \in 1..MaxRows |->
                                        IF i = 1 THEN x1 ELSE Num(1)])
                    [] c = "hue" -> Vec("object", hue)
                    [] c = "col" -> Vec("object", col)
                    [] OTHER -> Vec("object", [i \in 1..MaxRows |->
                                        IF i = 1 THEN Str("r") ELSE Str("s")])]] :
        x1 \in {Num(1), NaN},
        hue \in {s \in [1..MaxRows -> {Str("a"), Str("b"), NaN}] :
                    /\ s[1] # Str("b")
                    /\ \A i \in 2..MaxRows : s[i] # NaN},
        col \in {s \in [1..MaxRows -> {Str("c"), Str("d")}] : s[1] = Str("c")},
        withrow \in {{}, {"row"}}}

\* the hue_order of map_hue: a reversal, and a list that repeats a level
HueOrders == {Explicit(<<Str("b"), Str("a")>>), Explicit(<<Str("a"), Str("a")>>)}

IterGroupings ==
    {GroupNone, GroupStr("hue"), GroupStr("size"), GroupList(<<"hue", "hue">>),
     GroupList(<<"col", "hue">>), GroupTuple(<<"size", "hue">>)}

DefaultOptions ==
    [reverse |-> FALSE, from_comp_data |-> FALSE, by_facet |-> TRUE,
     allow_empty |-> FALSE, dropna |-> TRUE]

\* the defaults, each flag flipped alone, and reverse with allow_empty
IterOptions ==
    {DefaultOptions,
     [DefaultOptions EXCEPT !.reverse = TRUE],
     [DefaultOptions EXCEPT !.by_facet = FALSE],
     [DefaultOptions EXCEPT !.allow_empty = TRUE],
     [DefaultOptions EXCEPT !.dropna = FALSE],
     [DefaultOptions EXCEPT !.reverse = TRUE, !.allow_empty = TRUE]}

NoCall == [op |-> "new"]
NoResult == [err |-> "", before |-> NoPlotter, yields |-> <<>>,
             grouping_vars |-> <<>>, caller_list |-> <<>>]

InitIter ==
    /\ pc = "new"
    /\ args = NoCall
    /\ out = NoResult
    /\ \E t \in IterTables : plotter = NewPlotter(t)

\* map_hue(order=order): the hue mapping is replaced
MapHue ==
    /\ pc = "new"
    /\ \E order \in HueOrders :
        /\ plotter' = [plotter EXCEPT !.maps.hue =
                          MappingLevels(plotter.plot_data, plotter.var_types, "hue", order)]
        /\ args' = [op |-> "map_hue", order |-> order]
    /\ pc' = "map_hue"
    /\ out' = [NoResult EXCEPT !.before = plotter]

\* FacetGrid(data, col=, row=), then _attach(grid): the grid names
\* its columns and rows by categorical_order of the facet columns, and by the
\* empty list for a facet role that is not bound
AttachFacets ==
    /\ pc \in {"new", "map_hue"}
    /\ \E facet_order \in SetOrders(FacetExtra(plotter, <<>>)) :
        LET names(r) == IF r \in DOMAIN plotter.variables
                        THEN Names(categorical_order(plotter.plot_data.cols[r], NoOrder).val)
                        ELSE Names(<<>>)
            obj == Grid(names("col"), names("row"), "True", "True")
            r == attach(plotter, obj, SpecNone, <<FALSE, FALSE>>, facet_order)
        IN  /\ plotter' = r.plotter
            /\ args' = [op |-> "attach", obj |-> obj]
            /\ out' = [NoResult EXCEPT !.err = r.err, !.before = plotter]
    /\ pc' = "attach"

\* list(iter_data(grouping_vars, **options)); facet_order is the order in
\* which this process iterates the set of added facet roles
IterData ==
    /\ pc \in {"new", "map_hue", "attach"}
    /\ \E grouping \in IterGroupings, opt \in IterOptions :
        \E facet_order \in SetOrders(IF opt.by_facet
                                     THEN FacetExtra(plotter, grouping.list) ELSE {}) :
            LET r == iter_data(plotter, grouping, opt, facet_order)
            IN  /\ plotter' = r.plotter
                /\ args' = [op |-> "iter_data", grouping |-> grouping, opt |-> opt,
                            facet_order |-> facet_order]
                /\ out' = [err |-> r.err, before |-> plotter, yields |-> r.yields,
                           grouping_vars |-> r.grouping_vars,
                           caller_list |-> r.caller_list]
    /\ pc' = "iter_data"

NextIter == MapHue \/ AttachFacets \/ IterData

SpecIter == InitIter /\ [][NextIter]_vars

\* a completed iter_data call
Iterated == pc = "iter_data" /\ out.err = ""

\* the table iter_data read (plot_data: from_comp_data is off in this family)
IterTable == out.before.plot_data

HasNull(t, i, roles) == \E c \in roles : isna(t.cols[c].vals[i])

MatchesKey(t, i, grouping_vars, key) ==
    \A j \in 1..Len(grouping_vars) : PyEq(t.cols[grouping_vars[j]].vals[i], key[j])

\* the subsets yielded are, for every key, the rows matching the key among the
\* rows without a null in one of the columns roles
YieldsRowsWithoutNullIn(roles) ==
    \A k \in 1..Len(out.yields) :
        out.yields[k].data =
            TakeRows(IterTable, SelectSeq(Positions(IterTable), LAMBDA i :
                /\ ~HasNull(IterTable, i, roles)
                /\ MatchesKey(IterTable, i, out.grouping_vars, out.yields[k].key)))

\* C2 (as claimed): with dropna on, iter_data removes exactly the rows with a
\* null in one of the selected grouping roles; a row whose only nulls are in
\* other columns is kept and is yielded under its key.
C2_DropnaSelectedRoles ==
    Iterated /\ args.opt.dropna => YieldsRowsWithoutNullIn(Range(out.grouping_vars))

\* C2 (amended): with dropna on, iter_data removes exactly the rows with a
\* null in at least one column of the table, a selected grouping role or not:
\* every yielded subset holds the rows matching its key among the rows that
\* have no null at all.
C2_DropnaAnyColumn ==
    Iterated /\ args.opt.dropna => YieldsRowsWithoutNullIn(DOMAIN IterTable.cols)

\* a row with NaN in x only is dropped from a grouping by hue, the other rows
\* of its hue level are yielded
C2_Witness ==
    /\ Iterated /\ args.opt.dropna
    /\ out.grouping_vars = <<"hue">>
    /\ isna(IterTable.cols["x"].vals[1])
    /\ IterTable.cols["hue"].vals[1] = Str("a")
    /\ \E k \in 1..Len(out.yields) :
        /\ out.yields[k].key = <<Str("a")>>
        /\ out.yields[k].data.index # <<>>
        /\ 0 \notin Range(out.yields[k].data.index)

\* the keys of the level product, from the levels the plotter holds after the
\* call, and the table after the optional dropna
IterKeys ==
    LET lv == var_levels(plotter)
    IN  Product([j \in 1..Len(out.grouping_vars) |->
                    IF out.grouping_vars[j] \in DOMAIN lv
                    THEN lv[out.grouping_vars[j]] ELSE <<>>])

Filtered ==
    IF args.opt.dropna
    THEN TakeRows(IterTable, SelectSeq(Positions(IterTable), LAMBDA i :
                      ~HasNull(IterTable, i, DOMAIN IterTable.cols)))
    ELSE IterTable

KeyMatches(key) ==
    \E i \in 1..Len(Filtered.index) : MatchesKey(Filtered, i, out.grouping_vars, key)

Count(s, v) == Cardinality({i \in 1..Len(s) : s[i] = v})

YieldedKeys == [k \in 1..Len(out.yields) |-> out.yields[k].key]

\* C7: with grouping roles, a key of the level product that matches no row of
\* the filtered table is not yielded when allow_empty is off and is yielded,
\* once for each time the product holds it, with an empty subset that has the
\* columns of the table when allow_empty is on; a key that matches a row is
\* yielded in both cases, with a subset that is not empty.
C7_EmptyKeys ==
    Iterated /\ out.grouping_vars # <<>> =>
        /\ Range(YieldedKeys) \subseteq Range(IterKeys)
        /\ \A key \in Range(IterKeys) :
            Count(YieldedKeys, key) =
                IF KeyMatches(key) \/ args.opt.allow_empty
                THEN Count(IterKeys, key) ELSE 0
        /\ \A k \in 1..Len(out.yields) :
            /\ DOMAIN out.yields[k].data.cols = DOMAIN IterTable.cols
            /\ (out.yields[k].data.index = <<>>) <=> ~KeyMatches(out.yields[k].key)

\* allow_empty on: every key of the product is yielded, one with rows and
\* another with an empty subset
C7_Witness ==
    /\ Iterated /\ args.opt.allow_empty
    /\ "hue" \in Range(out.grouping_vars)
    /\ Len(out.yields) = Len(IterKeys)
    /\ \E k \in 1..Len(out.yields) : out.yields[k].data.index # <<>>
    /\ \E k \in 1..Len(out.yields) : out.yields[k].data.index = <<>>

\* the same call on the same plotter with reverse flipped
FlippedReverse ==
    iter_data(out.before, args.grouping, [args.opt EXCEPT !.reverse = ~@],
              args.facet_order)

\* C8: for the same plotter, grouping roles and other options, the pairs
\* yielded with reverse=True are the pairs yielded with reverse=False in
\* exactly the reverse order, each key with the same subset.
C8_ReverseIsExactReverse ==
    Iterated =>
        /\ FlippedReverse.err = ""
        /\ Len(FlippedReverse.yields) = Len(out.yields)
        /\ \A i \in 1..Len(out.yields) :
            out.yields[i] = FlippedReverse.yields[Len(out.yields) + 1 - i]

\* a reversed iteration that yields at least two different keys
C8_Witness ==
    /\ Iterated /\ args.opt.reverse
    /\ Len(out.yields) >= 2
    /\ out.yields[1].key # out.yields[Len(out.yields)].key
    /\ out.yields[1].data.index # <<>>

\* C9 (as claimed): iter_data is deterministic: another iteration over the
\* same plotter with the same grouping roles and options, in whatever order
\* the set of added facet roles is iterated, yields the same sub_vars in the
\* same order.
C9_Deterministic ==
    Iterated =>
        \A facet_order \in SetOrders(Range(args.facet_order)) :
            LET again == iter_data(out.before, args.grouping, args.opt, facet_order)
            IN  /\ again.err = ""
                /\ [k \in 1..Len(again.yields) |-> again.yields[k].sub_vars]
                     = [k \in 1..Len(out.yields) |-> out.yields[k].sub_vars]

\* the bound roles among the caller's, in the caller's order
GivenBound ==
    SelectSeq(args.grouping.list, LAMBDA var : var \in DOMAIN out.before.variables)

\* the roles that follow the caller's in the effective sequence
AddedRoles ==
    SubSeq(out.grouping_vars, Len(GivenBound) + 1, Len(out.grouping_vars))

\* the effective sequence is the caller's bound roles in the caller's order,
\* then each bound facet role the caller did not give, once
CallerThenFacets ==
    /\ Len(out.grouping_vars) >= Len(GivenBound)
    /\ SubSeq(out.grouping_vars, 1, Len(GivenBound)) = GivenBound
    /\ NoDup(AddedRoles)
    /\ Range(AddedRoles) =
         (FacetRoles \cap DOMAIN out.before.variables) \ Range(args.grouping.list)

\* C10 (as claimed): with by_facet on, the effective grouping roles are the
\* caller's roles in the caller's order, then the bound facet roles not
\* already given, with the roles that are not bound removed, each role
\* occurring once.
C10_EachRoleOnce ==
    pc = "iter_data" /\ args.opt.by_facet => CallerThenFacets /\ NoDup(out.grouping_vars)

\* C10 (amended): with by_facet on, the effective grouping roles are the
\* caller's bound roles in the caller's order, a role the caller repeats being
\* kept as often as given, followed by each bound facet role that the caller
\* did not give, once, in no fixed order.
C10_CallerThenFacets ==
    pc = "iter_data" /\ args.opt.by_facet => CallerThenFacets

\* ("size", "hue") with col and row bound: size is not bound and goes, the
\* two facet roles are added
C10_Witness ==
    /\ Iterated /\ args.opt.by_facet
    /\ args.grouping = GroupTuple(<<"size", "hue">>)
    /\ out.grouping_vars = <<"hue", "row", "col">>

\* no role the caller gives is bound in the table, and no facet role is added
NoEffectiveRole ==
    /\ pc = "iter_data"
    /\ Range(args.grouping.list) \cap DOMAIN out.before.variables = {}
    /\ (args.opt.by_facet => FacetRoles \cap DOMAIN out.before.variables = {})

\* C11: when the effective set of grouping roles is empty (no role given, or
\* none of the given roles and no facet role bound in the table), iter_data
\* ends without an error and yields exactly one entry: the empty key with the
\* whole table after the null filtering.
C11_NoRolesYieldsWholeTable ==
    NoEffectiveRole =>
        /\ out.err = ""
        /\ out.yields = <<[key |-> <<>>, sub_vars |-> EmptyDict, data |-> Filtered]>>

\* grouping by "size", which the table does not bind, with by_facet off: the
\* one entry holds the table without its first row, whose x is NaN
C11_Witness ==
    /\ NoEffectiveRole /\ args.opt.dropna
    /\ args.grouping = GroupStr("size")
    /\ isna(IterTable.cols["x"].vals[1])
    /\ Len(out.yields) = 1
    /\ out.yields[1].key = <<>>
    /\ out.yields[1].data.index = Tail(IterTable.index)

\* the row labels of the k-th yielded subset
YieldedLabels(k) == Range(out.yields[k].data.index)

\* C28: in every (key, subset) that iter_data yields, every row of the
\* subset has, for each selected grouping role, exactly the value the key
\* gives for that role; so no row of the table is in the subsets of two
\* different keys; and the table of the plotter is what it was before the
\* call, the subsets being copies.
C28_SubsetsMatchKeys ==
    Iterated =>
        /\ \A k \in 1..Len(out.yields) :
             \A i \in 1..Len(out.yields[k].data.index) :
              \A j \in 1..Len(out.grouping_vars) :
                /\ out.yields[k].data.cols[out.grouping_vars[j]].vals[i]
                        = out.yields[k].key[j]
                /\ out.yields[k].data.cols[out.grouping_vars[j]].vals[i]
                        = out.yields[k].sub_vars[out.grouping_vars[j]]
        /\ \A k, l \in 1..Len(out.yields) :
                out.yields[k].key # out.yields[l].key =>
                    YieldedLabels(k) \cap YieldedLabels(l) = {}
        /\ \A k \in 1..Len(out.yields) :
                YieldedLabels(k) \subseteq Range(IterTable.index)
        /\ plotter.plot_data = out.before.plot_data

\* two roles select the subsets, and two different keys were yielded with
\* rows
C28_Witness ==
    /\ Iterated
    /\ Cardinality(Range(out.grouping_vars)) >= 2
    /\ \E k, l \in 1..Len(out.yields) :
        /\ out.yields[k].key # out.yields[l].key
        /\ YieldedLabels(k) # {} /\ YieldedLabels(l) # {}

\* a selected grouping role has no level sequence: no semantic mapping holds
\* levels for it and neither _attach nor scale_categorical recorded any
RoleWithoutLevels ==
    \E j \in 1..Len(out.grouping_vars) :
        out.grouping_vars[j] \notin DOMAIN var_levels(out.before)

C27_CallerListUntouched ==
    pc = "iter_data" /\ args.grouping.kind = "list" =>
        out.caller_list = args.grouping.list

----------------------------------------------------------------------------
(* Rebuilding one semantic mapping: a plotter over a table with x and at   *)
(* most one of hue, size and style; map_hue, map_size or map_style is      *)
(* called once with a mapping specification, and the new mapping object is *)
(* then looked up with one key.                                            *)

\* the column of the semantic role: all null, strings, a string and a null,
\* numbers, or dates
BuildColumns ==
    {Vec("float", <<NaN, NaN>>),
     Vec("object", <<Str("a"), Str("b")>>),
     Vec("object", <<Str("a"), NaN>>),
     Vec("float", <<Num(2), Num(4)>>),
     Vec("float", <<Num(3), Num(3)>>),
     Vec("datetime", <<Date(1), Date(2)>>)}

BuildTables ==
    {[index |-> <<0, 1>>, cols |-> [c \in {"x"} |-> Vec("float", <<Num(1), Num(2)>>)]]}
    \cup {[index |-> <<0, 1>>,
           cols |-> [c \in {"x", r} |->
                        IF c = "x" THEN Vec("float", <<Num(1), Num(2)>>) ELSE col]] :
            r \in MapRoles, col \in BuildColumns}

HuePalettes ==
    {SpecNone, SpecName("deep"), SpecName("viridis"),
     SpecList(<<UserAttr(1), UserAttr(2)>>),
     SpecDict([key \in {Str("a"), Str("b")} |-> UserAttr(1)])}

\* hue_norm: None, the limits (0, 4), a Normalize() without limits, or a
\* LogNorm with the limits 1 and 4
HueNorms == {NormNone, NormTuple(0, 4), NormObject, LogNorm(1, 4)}

SizeSpecs ==
    {SpecNone, SpecTuple(<<Size(1, 1), Size(3, 1)>>), SpecTuple(<<Size(1, 1)>>),
     SpecList(<<Size(5, 1), Size(6, 1)>>),
     SpecDict([key \in {Str("a"), Str("b")} |-> Size(5, 1)]), SpecOther}

MarkerSpecs ==
    {SpecNone, SpecTrue, SpecList(<<UserAttr(1), UserAttr(2)>>),
     SpecList(<<UserAttr(1), LineArt(2)>>)}

DashSpecs == {SpecNone, SpecTrue, SpecFalse}

LookupKeys == {Str("a"), Str("z"), Num(0), Num(3), Date(1), Date(3), NaN}

NoBuilt == [err |-> "", warned |-> FALSE, map |-> UnsetMapping("None"),
            lookup |-> Ret(<<>>), key |-> None]

InitBuild ==
    /\ pc = "new"
    /\ args = NoCall
    /\ out = NoBuilt
    /\ \E t \in BuildTables : plotter = NewPlotter(t)

\* what _hue_map, _size_map or _style_map holds after map_<role>: the new
\* mapping object, or the old one when the constructor raised
Remapped(p, role, r) ==
    IF r.err # "" THEN p
    ELSE [p EXCEPT !.maps[role] = [absent |-> r.map.absent, levels |-> r.map.levels]]

\* plotter.map_hue(palette=palette, norm=norm)
MapHuePalette ==
    /\ pc = "new"
    /\ \E palette \in HuePalettes, norm \in HueNorms :
        /\ out' = [NoBuilt EXCEPT
                     !.err = HueMappingInit(plotter, palette, NoOrder, norm).err,
                     !.warned = HueMappingInit(plotter, palette, NoOrder, norm).warned,
                     !.map = HueMappingInit(plotter, palette, NoOrder, norm).map]
        /\ plotter' = Remapped(plotter, "hue",
                               HueMappingInit(plotter, palette, NoOrder, norm))
        /\ args' = [op |-> "map_hue", role |-> "hue", specs |-> <<palette>>,
                    norm |-> norm]
    /\ pc' = "mapped"

\* plotter.map_size(sizes=sizes)
MapSizeSizes ==
    /\ pc = "new"
    /\ \E sizes \in SizeSpecs :
        /\ out' = [NoBuilt EXCEPT !.err = SizeMappingInit(plotter, sizes, NoOrder).err,
                                  !.warned = SizeMappingInit(plotter, sizes, NoOrder).warned,
                                  !.map = SizeMappingInit(plotter, sizes, NoOrder).map]
        /\ plotter' = Remapped(plotter, "size", SizeMappingInit(plotter, sizes, NoOrder))
        /\ args' = [op |-> "map_size", role |-> "size", specs |-> <<sizes>>,
                    norm |-> NormNone]
    /\ pc' = "mapped"

\* plotter.map_style(markers=markers, dashes=dashes)
MapStyleAttrs ==
    /\ pc = "new"
    /\ \E markers \in MarkerSpecs, dashes \in DashSpecs :
        /\ out' = [NoBuilt EXCEPT
                     !.err = StyleMappingInit(plotter, markers, dashes, NoOrder).err,
                     !.warned = StyleMappingInit(plotter, markers, dashes, NoOrder).warned,
                     !.map = StyleMappingInit(plotter, markers, dashes, NoOrder).map]
        /\ plotter' = Remapped(plotter, "style",
                               StyleMappingInit(plotter, markers, dashes, NoOrder))
        /\ args' = [op |-> "map_style", role |-> "style", specs |-> <<markers, dashes>>,
                    norm |-> NormNone]
    /\ pc' = "mapped"

\* the size range a numeric size mapping stored: the sizes tuple or the
\* plotter's default
StoredSizeRange == IF args.specs[1].kind = "tuple" THEN args.specs[1].list
                   ELSE default_size_range

\* plotter._hue_map(key), plotter._size_map(key) or plotter._style_map(key)
\* for a single key
LookupSingle ==
    /\ pc = "mapped" /\ out.err = ""
    /\ \E key \in LookupKeys :
        out' = [out EXCEPT !.lookup =
                   CASE args.role = "hue" -> HueLookup(out.map, key)
                     [] args.role = "size" -> SizeLookup(out.map, key, StoredSizeRange)
                     [] OTHER -> StyleLookup(out.map, key),
                         !.key = key]
    /\ pc' = "looked_up"
    /\ UNCHANGED <<args, plotter>>

NextBuild == MapHuePalette \/ MapSizeSizes \/ MapStyleAttrs \/ LookupSingle

SpecBuild == InitBuild /\ [][NextBuild]_vars

\* the column of the role of the last map_<role> call is absent or all null
RoleUnassigned == AllNull(RoleData(plotter.plot_data, args.role))

\* a mapping specification was passed to the last map_<role> call
SpecSupplied == \E i \in 1..Len(args.specs) : args.specs[i].kind # "None"

\* C13: for each of the hue, size and style mappings, when the column of the
\* role is absent from the table or entirely null, the mapping is built in the
\* absent state (levels and lookup_table unset, every lookup fails with an
\* error), and a warning is emitted whenever a mapping specification (palette;
\* sizes; markers or dashes) was supplied anyway.
C13_AbsentMappingWarns ==
    pc \in {"mapped", "looked_up"} /\ RoleUnassigned =>
        /\ out.err = ""
        /\ out.map.absent
        /\ plotter.maps[args.role].absent
        /\ (pc = "looked_up" => out.lookup.err # "")
        /\ (SpecSupplied => out.warned)

\* map_hue was called on a column that is not entirely null, with a palette
\* that is a qualitative palette name, a dict or a list
HueMapped == pc \in {"mapped", "looked_up"} /\ args.role = "hue" /\ ~RoleUnassigned
PaletteIsQualName == args.specs[1].kind = "str" /\ args.specs[1].name \in QualPalettes
PaletteIsCollection == args.specs[1].kind \in {"dict", "list"}

\* C22: for a hue mapping over a non-null column, whenever the palette is a
\* qualitative palette name, a dict or a list, the resulting map_type is
\* categorical, whatever the norm argument and the type of the column.
C22_PaletteForcesCategorical ==
    HueMapped /\ (PaletteIsQualName \/ PaletteIsCollection) /\ out.err = "" =>
        out.map.map_type = "categorical"

\* C22 as the code has it: a qualitative palette name gives a categorical
\* mapping whatever norm is; a dict or a list gives one when norm is None,
\* and a numeric mapping when a norm is passed.
C22_NormOverridesCollection ==
    HueMapped /\ out.err = "" =>
        /\ PaletteIsQualName => out.map.map_type = "categorical" /\ ~out.map.normed
        /\ PaletteIsCollection /\ args.norm.kind = "None" =>
                out.map.map_type = "categorical" /\ ~out.map.normed
        /\ PaletteIsCollection /\ args.norm.kind # "None" =>
                out.map.map_type = "numeric" /\ out.map.normed

\* a dict palette without a norm over a column of numbers, and a qualitative
\* palette name with a norm
C22_Witness ==
    /\ HueMapped /\ out.err = ""
    /\ plotter.var_types["hue"] = "numeric"
    /\ \/ PaletteIsQualName /\ args.norm.kind # "None"
       \/ args.specs[1].kind = "list" /\ args.norm.kind = "None"
    /\ out.map.map_type = "categorical"

\* a single key was looked up in a hue mapping that has a lookup table
HueLooked == pc = "looked_up" /\ args.role = "hue" /\ ~out.map.absent
KeyInTable == out.key \in DOMAIN out.map.lookup_table

\* calling the normalizer with the key raises TypeError: the norm is still a
\* tuple, or the key has no float value
NormalizerRaises == out.map.norm.kind = "tuple" \/ out.key.k \in {"str", "date", "none"}

\* the normalized key is masked: a LogNorm and a key without a logarithm
NormedIsMasked == out.map.norm.log /\ out.key.k = "num" /\ out.key.n <= 0

\* C26: a key of lookup_table gives its entry; any other key gives the
\* transparent colour (0, 0, 0, 0) without error when the mapping has no
\* normalizer (categorical or datetime mode); with a normalizer the key is
\* normalized and passed through the colormap, a masked normalized value
\* counting as NaN, and a TypeError of the normalizer gives (0, 0, 0, 0) for
\* the key NaN and is raised for any other key.
C26_HueLookupSingle ==
    HueLooked =>
        /\ ~out.map.normed <=> out.map.map_type \in {"categorical", "datetime"}
        /\ IF KeyInTable THEN out.lookup = Ret(out.map.lookup_table[out.key])
           ELSE IF ~out.map.normed THEN out.lookup = Ret(Transparent)
           ELSE IF NormalizerRaises
           THEN out.lookup = IF out.key.k = "nan" THEN Ret(Transparent)
                             ELSE Raise("TypeError")
           ELSE /\ out.lookup.err = ""
                /\ IF NormedIsMasked \/ out.key.k = "nan"
                   THEN out.lookup.val = Transparent
                   ELSE out.lookup.val.pal = "cmap"

\* a key without a logarithm was looked up in a mapping with a LogNorm
C26_Witness ==
    /\ HueLooked /\ out.map.normed
    /\ ~KeyInTable /\ NormedIsMasked
    /\ out.lookup = Ret(Transparent)

\* a missing key in a categorical mapping, and NaN with a norm that is a tuple
C26_WitnessSentinel ==
    /\ HueLooked /\ ~KeyInTable /\ out.map.map_type = "categorical"
    /\ out.lookup = Ret(Transparent)
C26_WitnessTypeError ==
    /\ HueLooked /\ ~KeyInTable /\ out.map.norm.kind = "tuple" /\ out.key.k = "nan"
    /\ out.lookup = Ret(Transparent)

----------------------------------------------------------------------------
(* variable_type as a pure function of a drawn vector and boolean_type     *)

TypeValues == {Num(0), Num(1), Num(2), Str("a"), Date(1), NaN, None}

\* object Series and Python lists hold any values, a float Series numbers and
\* NaN, a datetime64 Series dates and NaT, a categorical Series its values
\* with the categories in order of appearance
TypeVectors ==
    {Vec(c, vals) : c \in {"object", "list"}, vals \in SeqsUpTo(TypeValues, MaxLen)}
    \cup {Vec("float", vals) : vals \in SeqsUpTo({Num(0), Num(1), Num(2), NaN}, MaxLen)}
    \cup {Vec("datetime", vals) : vals \in SeqsUpTo({Date(1), NaN}, MaxLen)}
    \cup {CatVec(vals, SelectSeq(Unique(vals), notnull)) :
            vals \in SeqsUpTo({Num(0), Num(1), Str("a"), NaN}, MaxLen)}

InitType ==
    /\ pc = "type_init"
    /\ args \in [vector : TypeVectors, boolean_type : {"numeric", "categorical"}]
    /\ out = ""
    /\ plotter = NoPlotter

\* variable_type(vector, boolean_type=boolean_type)
VariableType ==
    /\ pc = "type_init"
    /\ pc' = "type_done"
    /\ out' = variable_type(args.vector, args.boolean_type)
    /\ UNCHANGED <<args, plotter>>

NextType == VariableType

SpecType == InitType /\ [][NextType]_vars

\* properties of the classified vector
TypeVals == args.vector.vals
EveryValue(P(_)) == \A i \in 1..Len(TypeVals) : P(TypeVals[i])
IsZeroOrOne(v) == v = Num(0) \/ v = Num(1)
IsNumberInstance(v) == v.k \in {"num", "nan"}
IsDateInstance(v) == v.k = "date"

\* the rules as <<condition, result>> in the order claimed
TypeRules ==
    << <<args.vector.c = "category", "categorical">>,
       <<EveryValue(isna), "numeric">>,
       <<EveryValue(IsZeroOrOne), args.boolean_type>>,
       <<args.vector.c = "float", "numeric">>,
       <<args.vector.c = "datetime", "datetime">>,
       <<TRUE, IF EveryValue(IsNumberInstance) THEN "numeric"
               ELSE IF EveryValue(IsDateInstance) THEN "datetime"
               ELSE "categorical">> >>

FirstMatchingRule ==
    CHOOSE i \in 1..Len(TypeRules) :
        TypeRules[i][1] /\ \A j \in 1..(i - 1) : ~TypeRules[j][1]

\* C14: variable_type returns the result of the first matching rule in the
\* order (1) categorical dtype -> categorical, (2) every value null ->
\* numeric, (3) every value 0 or 1 -> boolean_type, (4) numeric storage ->
\* numeric, (5) datetime storage -> datetime, (6) all number instances ->
\* numeric, all datetime instances -> datetime, otherwise categorical.
C14_FirstMatchingRule ==
    pc = "type_done" => out = TypeRules[FirstMatchingRule][2]

\* a float vector of zeros and ones with boolean_type "categorical": rule 3
\* answers before rule 4
C14_Witness ==
    /\ pc = "type_done"
    /\ args.vector = Vec("float", <<Num(0), Num(1)>>)
    /\ args.boolean_type = "categorical"
    /\ out = "categorical"

\* C15: a vector whose values are all 0, 1 or null, with at least one
\* non-null value, of any storage, is classified as boolean_type.
C15_BinaryWithNulls ==
    /\ pc = "type_done"
    /\ \A i \in 1..Len(TypeVals) : IsZeroOrOne(TypeVals[i]) \/ isna(TypeVals[i])
    /\ \E i \in 1..Len(TypeVals) : notnull(TypeVals[i])
    => out = args.boolean_type

\* C16 (as claimed): every vector whose values are all null, the empty vector
\* included, is classified numeric whatever boolean_type is.
C16_AllNullNumeric ==
    pc = "type_done" /\ EveryValue(isna) => out = "numeric"

\* C16 (amended): every vector without categorical dtype whose values are all
\* null, the empty vector included, is classified numeric whatever
\* boolean_type is; with categorical dtype it is classified categorical.
C16_AllNullNumericUnlessCategory ==
    pc = "type_done" /\ EveryValue(isna) =>
        out = IF args.vector.c = "category" THEN "categorical" ELSE "numeric"

\* the empty list with boolean_type "categorical" is numeric
C16_Witness ==
    /\ pc = "type_done"
    /\ args.vector = ListOf(<<>>)
    /\ args.boolean_type = "categorical"
    /\ out = "numeric"

----------------------------------------------------------------------------
(* infer_orient(x, y, orient, require_numeric) as a pure function. x and y  *)
(* are None or a vector; orient is None or a string, held as the sequence  *)
(* of its characters. The outcome is [err, val, warned]: warned tells       *)
(* whether warnings.warn was called.                                       *)

NoVector == [none |-> TRUE]
OrientNone == [none |-> TRUE, chars |-> <<>>]
OrientStr(chars) == [none |-> FALSE, chars |-> chars]

\* str(orient).startswith(c); str(None) is the text None
StrStartsWith(orient, c) ==
    IF orient.none THEN c = "N"
    ELSE orient.chars # <<>> /\ orient.chars[1] = c

\* None if x is None else variable_type(x)
TypeOrNone(x) == IF x = NoVector THEN "None" ELSE variable_type(x, "numeric")

Oriented(val, warned) == [err |-> "", val |-> val, warned |-> warned]
OrientRaises(err, warned) == [err |-> err, val |-> "", warned |-> warned]

\* infer_orient(x, y, orient, require_numeric)
infer_orient(x, y, orient, require_numeric) ==
    IF x = NoVector
    THEN IF require_numeric /\ TypeOrNone(y) # "numeric"
         THEN OrientRaises("TypeError", StrStartsWith(orient, "h"))
         ELSE Oriented("v", StrStartsWith(orient, "h"))
    ELSE IF y = NoVector
    THEN IF require_numeric /\ TypeOrNone(x) # "numeric"
         THEN OrientRaises("TypeError", StrStartsWith(orient, "v"))
         ELSE Oriented("h", StrStartsWith(orient, "v"))
    ELSE IF StrStartsWith(orient, "v")
    THEN IF require_numeric /\ TypeOrNone(y) # "numeric"
         THEN OrientRaises("TypeError", FALSE) ELSE Oriented("v", FALSE)
    ELSE IF StrStartsWith(orient, "h")
    THEN IF require_numeric /\ TypeOrNone(x) # "numeric"
         THEN OrientRaises("TypeError", FALSE) ELSE Oriented("h", FALSE)
    ELSE IF ~orient.none THEN OrientRaises("ValueError", FALSE)
    ELSE IF TypeOrNone(x) # "categorical" /\ TypeOrNone(y) = "categorical"
    THEN Oriented("h", FALSE)
    ELSE IF TypeOrNone(x) # "numeric" /\ TypeOrNone(y) = "numeric"
    THEN Oriented("v", FALSE)
    ELSE IF TypeOrNone(x) = "numeric" /\ TypeOrNone(y) # "numeric"
    THEN Oriented("h", FALSE)
    ELSE IF require_numeric /\ "numeric" \notin {TypeOrNone(x), TypeOrNone(y)}
    THEN OrientRaises("TypeError", FALSE)
    ELSE Oriented("v", FALSE)

\* None, a numeric, a categorical or a datetime vector
OrientVectors ==
    {NoVector, Vec("float", <<Num(1), Num(2)>>), Vec("object", <<Str("a"), Str("b")>>),
     Vec("datetime", <<Date(1), Date(2)>>)}

\* None, "v", "h", "vertical", "horizontal", "x", "none" and the empty string
Orients ==
    {OrientNone, OrientStr(<<"v">>), OrientStr(<<"h">>),
     OrientStr(<<"v", "e", "r", "t", "i", "c", "a", "l">>),
     OrientStr(<<"h", "o", "r", "i", "z", "o", "n", "t", "a", "l">>),
     OrientStr(<<"x">>), OrientStr(<<"n", "o", "n", "e">>), OrientStr(<<>>)}

InitOrient ==
    /\ pc = "orient_init"
    /\ args \in [x : OrientVectors, y : OrientVectors, orient : Orients,
                  require_numeric : BOOLEAN]
    /\ out = Oriented("", FALSE)
    /\ plotter = NoPlotter

InferOrient ==
    /\ pc = "orient_init"
    /\ pc' = "oriented"
    /\ out' = infer_orient(args.x, args.y, args.orient, args.require_numeric)
    /\ UNCHANGED <<args, plotter>>

NextOrient == InferOrient

SpecOrient == InitOrient /\ [][NextOrient]_vars

\* orient is a string that starts with neither v nor h
BadOrient ==
    /\ ~args.orient.none
    /\ args.orient.chars = <<>> \/ args.orient.chars[1] \notin {"v", "h"}

\* C25: infer_orient raises ValueError whenever orient is not None and does
\* not start with v or h, for every combination of x and y being given or
\* None.
C25_BadOrientRaises ==
    pc = "oriented" /\ BadOrient => out.err = "ValueError"

----------------------------------------------------------------------------
(* Construction from data and variables: VectorPlotter(data, variables)    *)
(* with x, y and hue given in that order, each possibly None.              *)

\* a DataFrame with the columns "a" (numbers), "h" (all NaN) and 0 (strings)
\* and the row labels 0, 1; its index is unnamed, named "idx", named "a"
\* like its first column, or named by the number 5
AssignFrames ==
    {DataFrameOf(<<Str("a"), Str("h"), Num(0)>>,
                 (Str("a") :> Vec("float", <<Num(1), Num(2)>>))
                 @@ (Str("h") :> Vec("float", <<NaN, NaN>>))
                 @@ (Num(0) :> Vec("object", <<Str("u"), Str("v")>>)),
                 <<0, 1>>, index_name) :
        index_name \in {None, Str("idx"), Str("a"), Num(5)}}

\* a dict with the lists "a" (numbers) and "h" (all None)
AssignDict ==
    DataDict(<<Str("a"), Str("h")>>,
             (Str("a") :> ListOf(<<Num(1), Num(2)>>))
             @@ (Str("h") :> ListOf(<<None, None>>)))

XValues ==
    {ValNone, ValScalar(Str("a")), ValScalar(Str("idx")), ValScalar(Str("zz")),
     ValScalar(Num(0)), ValScalar(Num(5)),
     ValList(<<Num(1), Num(2)>>), ValList(<<Num(1), Num(2), Num(3)>>),
     ValSeries(Vec("float", <<Num(1), Num(2), Num(3)>>), <<0, 1, 2>>)}

YValues == {ValNone, ValScalar(Str("a")), ValList(<<Num(1), Num(2), Num(3)>>)}

HueValues ==
    {ValNone, ValScalar(Str("h")), ValScalar(Str("zz")),
     ValList(<<NaN, NaN>>), ValList(<<Str("u"), Str("v"), Str("w")>>)}

\* dict-like data with any variables; a flat list only as wide-form data
AssignInputs ==
    {[data |-> data, variables |-> <<<<"x", x>>, <<"y", y>>, <<"hue", hue>>>>] :
        data \in {DataNone, AssignDict} \cup AssignFrames,
        x \in XValues, y \in YValues, hue \in HueValues}
    \cup {[data |-> data,
           variables |-> <<<<"x", ValNone>>, <<"y", ValNone>>, <<"hue", hue>>>>] :
        data \in {DataList(<<>>), DataList(<<Num(1), Num(2)>>)}, hue \in HueValues}

NoAssigned == [err |-> "", input_format |-> "", plot_data |-> NoTable,
               variables |-> NoNamesOf, var_types |-> [v \in {} |-> ""]]

InitAssign ==
    /\ pc = "assign_init"
    /\ args \in AssignInputs
    /\ out = NoAssigned
    /\ plotter = NoPlotter

\* the levels of the default mappings __init__ builds; the hue mapping of a
\* wide-form plotter is categorical whatever the type of the column
DefaultLevels(r, role) ==
    IF r.input_format = "wide" /\ role = "hue" /\ "hue" \in DOMAIN r.variables
       /\ AnyNotNull(r.plot_data.cols["hue"])
    THEN [absent |-> FALSE,
          levels |-> categorical_order(r.plot_data.cols["hue"], NoOrder).val]
    ELSE MappingLevels(r.plot_data, r.var_types, role, NoOrder)

\* the plotter __init__ leaves when assign_variables returned r
PlotterFrom(r) ==
    [plot_data |-> r.plot_data,
     variables |-> r.variables,
     var_types |-> r.var_types,
     var_levels |-> [v \in {} |-> <<>>],
     var_ordered |-> [x |-> FALSE, y |-> FALSE],
     maps |-> [role \in MapRoles |-> DefaultLevels(r, role)],
     attached |-> FALSE,
     facets |-> NoGrid,
     converters |-> NoConverters,
     has_converters |-> FALSE,
     axes |-> [a \in {} |-> NewAxis],
     comp_data |-> [set |-> FALSE, table |-> NoTable]]

\* VectorPlotter(data, variables): no plotter exists when assign_variables
\* raises
Construct ==
    /\ pc = "assign_init"
    /\ pc' = "assigned"
    /\ out' = assign_variables(args.data, args.variables)
    /\ plotter' = IF assign_variables(args.data, args.variables).err # "" THEN NoPlotter
                  ELSE PlotterFrom(assign_variables(args.data, args.variables))
    /\ UNCHANGED args

NextAssign == Construct

SpecAssign == InitAssign /\ [][NextAssign]_vars

\* the i-th binding of the call and what the claim expects of it: a key of
\* the data columns, else a string naming the index, else a string (an
\* error), else a literal
BoundRole(i) == args.variables[i][1]
BoundVal(i) == args.variables[i][2]
IsColumnKey(i) == BoundVal(i).kind = "scalar" /\ BoundVal(i).key \in DOMAIN args.data.cols
IsIndexName(i) ==
    /\ ~IsColumnKey(i)
    /\ BoundVal(i).kind = "scalar" /\ BoundVal(i).key.k = "str"
    /\ args.data.kind = "DataFrame" /\ BoundVal(i).key = args.data.index_name
IsUnknownName(i) ==
    /\ ~IsColumnKey(i) /\ ~IsIndexName(i)
    /\ BoundVal(i).kind = "scalar" /\ BoundVal(i).key.k = "str"
IsLiteral(i) == ~IsColumnKey(i) /\ ~IsIndexName(i) /\ ~IsUnknownName(i)

\* the row count of the supplied data
DataRows ==
    IF args.data.kind = "DataFrame" THEN Len(args.data.index)
    ELSE IF DOMAIN args.data.cols = {} THEN 0
    ELSE Len(args.data.cols[CHOOSE k \in DOMAIN args.data.cols : TRUE].vals)

\* a literal list whose length is not the row count of a DataFrame
IsShortList(i) ==
    /\ IsLiteral(i) /\ BoundVal(i).kind = "list"
    /\ args.data.kind = "DataFrame" /\ Len(BoundVal(i).vec.vals) # DataRows

FirstToFail(i) ==
    /\ IsUnknownName(i) \/ IsShortList(i)
    /\ \A j \in 1..(i - 1) : ~IsUnknownName(j) /\ ~IsShortList(j)

LongAssigned == pc = "assigned" /\ out.input_format = "long"

SameValue(a, b) == a = b \/ (isna(a) /\ isna(b))

\* the value of the tidy column of the i-th role at the row label lab
TidyAt(i, lab) == out.plot_data.cols[BoundRole(i)].vals[PosOf(out.plot_data, lab)]

\* the tidy column of the i-th role holds the column, the index level or the
\* literal the binding resolves to
BoundAsResolved(i) ==
    IF IsColumnKey(i) /\ args.data.kind = "DataFrame"
    THEN \A r \in 1..Len(args.data.index) :
            SameValue(TidyAt(i, args.data.index[r]),
                      args.data.cols[BoundVal(i).key].vals[r])
    ELSE IF IsColumnKey(i)
    THEN \A r \in 1..Len(out.plot_data.index) :
            SameValue(out.plot_data.cols[BoundRole(i)].vals[r],
                      args.data.cols[BoundVal(i).key].vals[r])
    ELSE IF IsIndexName(i)
    THEN \A r \in 1..Len(args.data.index) :
            TidyAt(i, args.data.index[r]) = Num(args.data.index[r])
    ELSE IF BoundVal(i).kind = "Series"
    THEN \A r \in 1..Len(BoundVal(i).index) :
            SameValue(TidyAt(i, BoundVal(i).index[r]), BoundVal(i).vec.vals[r])
    ELSE IF BoundVal(i).kind = "list"
    THEN /\ Len(out.plot_data.index) = Len(BoundVal(i).vec.vals)
         /\ \A r \in 1..Len(out.plot_data.index) :
            SameValue(out.plot_data.cols[BoundRole(i)].vals[r], BoundVal(i).vec.vals[r])
    ELSE \A r \in 1..Len(out.plot_data.index) :
            out.plot_data.cols[BoundRole(i)].vals[r] = BoundVal(i).key

\* C17: in long mode each binding is resolved in this order: a key of the
\* data columns gets that column; otherwise a string naming an index level
\* gets that level; otherwise a string raises the binding error and a value
\* that is no string is taken as the literal data. A value that is no string
\* is never resolved against the names of the index levels.
C17_ResolutionOrder ==
    LongAssigned =>
        /\ \A i \in 1..Len(args.variables) :
            FirstToFail(i) /\ IsUnknownName(i) => out.err = ErrInterpret
        /\ out.err = ErrInterpret => \E i \in 1..Len(args.variables) : IsUnknownName(i)
        /\ out.err = "" => \A i \in 1..Len(args.variables) : BoundAsResolved(i)

\* x = 5 on a DataFrame whose index is named 5 and y = "a": x is the literal
\* 5 in every row, not the index
C17_Witness ==
    /\ LongAssigned /\ out.err = ""
    /\ args.data.kind = "DataFrame" /\ args.data.index_name = Num(5)
    /\ BoundVal(1) = ValScalar(Num(5))
    /\ BoundVal(2) = ValScalar(Str("a"))
    /\ out.plot_data.cols["x"].vals = <<Num(5), Num(5)>>
    /\ out.plot_data.cols["y"].vals = <<Num(1), Num(2)>>

\* a literal list or Series
IsVector(i) == IsLiteral(i) /\ BoundVal(i).kind \in {"list", "Series"}

\* C18 (as claimed): in long mode, for every role bound to a literal vector,
\* assignment raises whenever the length of the vector differs from the row
\* count of the supplied data, for every kind of data container and every
\* kind of vector.
C18_AnyLengthMismatchRaises ==
    LongAssigned /\ args.data.kind # "None" =>
        \A i \in 1..Len(args.variables) :
            IsVector(i) /\ Len(BoundVal(i).vec.vals) # DataRows => out.err # ""

\* C18 (amended): in long mode assignment raises the length-mismatch error
\* when data is a DataFrame and a role is bound to a literal list (not a
\* Series) whose length differs from the row count of data, unless an earlier
\* binding raised; and it raises that error in no other case: a Series is
\* aligned on its index, and with data that is no DataFrame the lengths are
\* not compared with data.
C18_ListAgainstDataFrame ==
    LongAssigned =>
        /\ \A i \in 1..Len(args.variables) :
            FirstToFail(i) /\ IsShortList(i) => out.err = ErrLength
        /\ out.err = ErrLength => \E i \in 1..Len(args.variables) : IsShortList(i)
        /\ \A i \in 1..Len(args.variables) :
            /\ IsVector(i) /\ BoundVal(i).kind = "Series"
            /\ \A j \in 1..Len(args.variables) : j # i => BoundVal(j).kind = "None"
            => out.err = ""

\* x a list of three values on a DataFrame of two rows
C18_Witness ==
    /\ LongAssigned
    /\ args.data.kind = "DataFrame"
    /\ BoundVal(1) = ValList(<<Num(1), Num(2), Num(3)>>)
    /\ out.err = ErrLength

\* C19: after long-mode assignment every role whose resolved column is
\* entirely null has been dropped, being neither a key of variables nor a
\* column of plot_data, and every remaining role has a non-null value.
C19_AllNullRolesDropped ==
    LongAssigned /\ out.err = "" =>
        /\ \A v \in DOMAIN out.plot_data.cols : AnyNotNull(out.plot_data.cols[v])
        /\ \A v \in DOMAIN out.variables :
            v \in DOMAIN out.plot_data.cols /\ AnyNotNull(out.plot_data.cols[v])

\* a role other than x and y is given
OtherRoleGiven ==
    \E i \in 1..Len(args.variables) :
        BoundRole(i) \notin {"x", "y"} /\ BoundVal(i).kind # "None"

NeitherXNorY ==
    \A i \in 1..Len(args.variables) :
        BoundRole(i) \in {"x", "y"} => BoundVal(i).kind = "None"

\* C20: wide mode is selected exactly when neither x nor y is supplied, and
\* in wide mode assignment raises the binding error whenever another role is
\* given, whether data is empty or not; no table and no role binding is
\* produced then.
C20_WideRejectsRoles ==
    pc = "assigned" =>
        /\ out.input_format = "wide" <=> NeitherXNorY
        /\ out.input_format = "wide" /\ OtherRoleGiven =>
            /\ out.err = ErrWide
            /\ plotter = NoPlotter
            /\ out.plot_data = NoTable /\ DOMAIN out.variables = {}

\* hue given with an empty list as data
C20_Witness ==
    /\ pc = "assigned" /\ out.input_format = "wide"
    /\ args.data = DataList(<<>>)
    /\ OtherRoleGiven
    /\ out.err = ErrWide

\* wide-form assignment of a two-dimensional table (a DataFrame or a dict of
\* equally long lists) has returned
WideAssigned ==
    /\ pc = "assigned" /\ out.input_format = "wide" /\ out.err = ""
    /\ args.data.kind \in {"DataFrame", "dict"}

\* the source columns that classify as numeric, the row labels of the source
\* and the cell of column c at the i-th row
WideNumeric ==
    {c \in DOMAIN args.data.cols :
        variable_type(args.data.cols[c], "numeric") = "numeric"}
WideLabel(i) == IF args.data.kind = "DataFrame" THEN args.data.index[i] ELSE i - 1
WideCell(c, i) == args.data.cols[c].vals[i]

\* the tidy rows that come from column c and the i-th source row
TidyRowsOf(c, i) ==
    {j \in 1..Len(out.plot_data.index) :
        /\ out.plot_data.cols["hue"].vals[j] = c
        /\ out.plot_data.cols["x"].vals[j] = Num(WideLabel(i))}

\* C21: wide-form reshaping of a table with R rows and C numeric columns
\* gives a tidy table of exactly R*C rows with exactly the columns x, y, hue
\* and style; each cell of a numeric column is one tidy row whose hue and
\* style are the column name, whose x is the row label and whose y is the
\* cell; a column that is not numeric contributes no row.
C21_WideMeltShape ==
    WideAssigned =>
        /\ DOMAIN out.plot_data.cols = {"x", "y", "hue", "style"}
        /\ Len(out.plot_data.index) = DataRows * Cardinality(WideNumeric)
        /\ \A v \in DOMAIN out.plot_data.cols :
                Len(out.plot_data.cols[v].vals) = Len(out.plot_data.index)
        /\ \A j \in 1..Len(out.plot_data.index) :
            /\ out.plot_data.cols["hue"].vals[j] \in WideNumeric
            /\ out.plot_data.cols["style"].vals[j] = out.plot_data.cols["hue"].vals[j]
        /\ \A c \in WideNumeric : \A i \in 1..DataRows :
            /\ Cardinality(TidyRowsOf(c, i)) = 1
            /\ \A j \in TidyRowsOf(c, i) :
                SameValue(out.plot_data.cols["y"].vals[j], WideCell(c, i))

\* a DataFrame with two numeric columns and a column of strings was melted
\* into four rows
C21_Witness ==
    /\ WideAssigned
    /\ args.data.kind = "DataFrame"
    /\ Cardinality(WideNumeric) = 2
    /\ DOMAIN args.data.cols \ WideNumeric # {}
    /\ Len(out.plot_data.index) = 4
    /\ plotter # NoPlotter

----------------------------------------------------------------------------
(* Axis scaling and unit conversion: a plotter over a table with one axis  *)
(* column, attached to a single Axes. The arguments of the drawing (the    *)
(* order and formatter of scale_categorical, the allowed types and the log *)
(* scale of _attach) are drawn once; scale_categorical("x", ...), _attach, *)
(* the comp_data property and iter_data("x", from_comp_data=True) are then *)
(* called in any order, any number of times.                               *)

\* x is a float column (2.0 or NaN in the first row, 1.0 or 2.0 below it), a
\* string column ("b" or NaN, then "a" or "b"), or a category column with the
\* categories (b, a) ("a", then "a" or "b"); or x is not bound and y is 1.0
AxisTables ==
    LET index == [i \in 1..MaxRows |-> i - 1]
        columns(first, others) ==
            {s \in [1..MaxRows -> first \cup others] :
                s[1] \in first /\ \A i \in 2..MaxRows : s[i] \in others}
    IN  {[index |-> index, cols |-> [x |-> Vec("float", s)]] :
            s \in columns({Num(2), NaN}, {Num(1), Num(2)})}
        \cup {[index |-> index, cols |-> [x |-> Vec("object", s)]] :
                s \in columns({Str("b"), NaN}, {Str("a"), Str("b")})}
        \cup {[index |-> index, cols |-> [x |-> CatVec(s, <<Str("b"), Str("a")>>)]] :
                s \in columns({Str("a")}, {Str("a"), Str("b")})}
        \cup {[index |-> index,
               cols |-> [y |-> Vec("float", [i \in 1..MaxRows |-> Num(1)])]]}

\* the explicit order a caller would give for the table: its levels, largest
\* first for numbers, alphabetical for strings
ExplicitOrder(t) ==
    IF "x" \notin DOMAIN t.cols THEN Explicit(<<Str("")>>)
    ELSE IF t.cols["x"].c = "float" THEN Explicit(<<Num(2), Num(1)>>)
    ELSE Explicit(<<Str("a"), Str("b")>>)

\* allowed_types and log_scale of _attach: the defaults, a log scale on x,
\* the string "numeric", or the list of the two other types
AttachArgs ==
    {[allowed_types |-> SpecNone, log_scale |-> <<FALSE, FALSE>>],
     [allowed_types |-> SpecNone, log_scale |-> <<TRUE, FALSE>>],
     [allowed_types |-> SpecName("numeric"), log_scale |-> <<FALSE, FALSE>>],
     [allowed_types |-> SpecList(<<"categorical", "datetime">>),
      log_scale |-> <<FALSE, FALSE>>]}

NoOutcome == [err |-> "", before |-> NoPlotter, repeat |-> FALSE,
              table |-> NoTable, yields |-> <<>>]

Init ==
    /\ pc = "new"
    /\ out = NoOutcome
    /\ \E t \in AxisTables, formatter \in Formatters, attach_args \in AttachArgs :
       \E order \in {NoOrder, ExplicitOrder(t)} :
        /\ plotter = NewPlotter(t)
        /\ args = [order |-> order, formatter |-> formatter,
                   allowed_types |-> attach_args.allowed_types,
                   log_scale |-> attach_args.log_scale]

\* p.scale_categorical("x", order=order, formatter=formatter); repeat records
\* that the call before it was the same call and returned
ScaleCategorical ==
    LET r == scale_categorical(plotter, "x", args.order, args.formatter)
    IN  /\ plotter' = r.plotter
        /\ out' = [NoOutcome EXCEPT !.err = r.err, !.before = plotter,
                                    !.repeat = (pc = "scale_categorical" /\ out.err = "")]
    /\ pc' = "scale_categorical"
    /\ UNCHANGED args

\* p._attach(ax, allowed_types=, log_scale=) with a new Axes
Attach ==
    LET r == attach(plotter, NoGrid, args.allowed_types, args.log_scale, <<>>)
    IN  /\ plotter' = r.plotter
        /\ out' = [NoOutcome EXCEPT !.err = r.err, !.before = plotter]
    /\ pc' = "attach"
    /\ UNCHANGED args

\* p.comp_data
CompData ==
    LET r == comp_data(plotter)
    IN  /\ plotter' = r.plotter
        /\ out' = [NoOutcome EXCEPT !.err = r.err, !.before = plotter,
                                    !.table = r.table]
    /\ pc' = "comp_data"
    /\ UNCHANGED args

\* list(p.iter_data("x", from_comp_data=True))
IterCompData ==
    LET r == iter_data(plotter, GroupStr("x"),
                       [DefaultOptions EXCEPT !.from_comp_data = TRUE], <<>>)
    IN  /\ plotter' = r.plotter
        /\ out' = [NoOutcome EXCEPT !.err = r.err, !.before = plotter,
                                    !.yields = r.yields]
    /\ pc' = "iter_data"
    /\ UNCHANGED args

Next == ScaleCategorical \/ Attach \/ CompData \/ IterCompData

Spec == Init /\ [][Next]_vars

\* what scale_categorical leaves behind: the table, the types, the levels and
\* the ordered flags
ScaledState(p) == <<p.plot_data, p.var_types, var_levels(p), p.var_ordered>>

\* C3 (as claimed): scale_categorical invoked a second time on the same axis
\* with the same arguments either raises or leaves plot_data, var_types,
\* var_levels and _var_ordered exactly as the first call left them, for
\* numeric, string and category columns, with or without order or formatter.
C3_TwiceIdempotentOrRaises ==
    pc = "scale_categorical" /\ out.repeat =>
        out.err # "" \/ ScaledState(plotter) = ScaledState(out.before)

\* the unit-converted view computed anew from the plot_data and the
\* converters the plotter had when comp_data was read
FreshCompData ==
    comp_data([out.before EXCEPT !.comp_data = [set |-> FALSE, table |-> NoTable]])

\* C4 (as claimed): after any sequence of _attach, scale_categorical and
\* comp_data, the table comp_data returns is the unit-converted view of the
\* current plot_data with the current converters, never a view cached before
\* either changed.
C4_NeverStale ==
    pc = "comp_data" /\ out.err = "" /\ out.before.attached /\ FreshCompData.err = ""
        => out.table = FreshCompData.table

\* the types the caller allows, and the axis roles a plotter has bound
ClaimedAllowed ==
    CASE args.allowed_types.kind = "None" -> VarTypes
      [] args.allowed_types.kind = "str" -> {args.allowed_types.name}
      [] OTHER -> Range(args.allowed_types.list)
BoundAxes(p) == {"x", "y"} \cap DOMAIN p.variables

\* C24: _attach raises the type-constraint error if and only if some bound
\* axis role (x or y) has a variable type that is not in allowed_types (a
\* single string being a one-element set, None allowing all three types);
\* when _attach does not raise, a converter vector with one entry per row is
\* recorded for every bound axis role.
C24_TypeErrorIffNotAllowed ==
    pc = "attach" =>
        /\ out.err = ErrVarType <=>
                \E var \in BoundAxes(out.before) :
                    out.before.var_types[var] \notin ClaimedAllowed
        /\ out.err = "" =>
                \A var \in BoundAxes(plotter) :
                    /\ var \in DOMAIN plotter.converters
                    /\ Len(plotter.converters[var]) = Len(plotter.plot_data.index)

\* a categorical x was attached with allowed_types="numeric"
C24_Witness ==
    /\ pc = "attach" /\ out.err = ErrVarType
    /\ args.allowed_types.kind = "str"
    /\ "x" \in BoundAxes(out.before) /\ out.before.var_types["x"] = "categorical"

\* an x of an allowed type was attached and its converter vector recorded
C24_WitnessAttached ==
    /\ pc = "attach" /\ out.err = ""
    /\ args.allowed_types.kind = "list"
    /\ "x" \in DOMAIN plotter.converters

\* C30: when _attach raises the type-constraint error the state of the
\* plotter is unchanged: ax, facets, converters and var_levels are as before
\* the call, so a plotter that was not attached is still not attached and
\* comp_data still returns plot_data without error.
C30_FailedAttachKeepsState ==
    pc = "attach" /\ out.err = ErrVarType =>
        /\ plotter.attached = out.before.attached
        /\ plotter.facets = out.before.facets
        /\ plotter.converters = out.before.converters
        /\ var_levels(plotter) = var_levels(out.before)
        /\ ~out.before.attached =>
                /\ comp_data(plotter).err = ""
                /\ comp_data(plotter).table = plotter.plot_data

\* C23: the role binding (variables: role -> source name) of a plotter is
\* fixed by assign_variables: no later operation (scale_categorical, _attach,
\* comp_data, iter_data) adds, removes or changes an entry.
C23_VariablesFixed == [][plotter'.variables = plotter.variables]_vars

====
